---- MODULE Spec2Model ----
(***************************************************************************)
(* Prephix (Pre-Phrecon Input fiXer): the merge run of prephix.py and the  *)
(* three SNP input readers of SNPInputReader.py.                           *)
(*                                                                         *)
(* A text line is modelled by the fields the readers' regular expressions  *)
(* extract from it; a base string is a sequence of one-character strings.  *)
(* A locus is a Python int, written <<n>>, or, for a VCF record in         *)
(* multi-chrom mode, the Python str "chrom-pos", written <<chrom, pos>>.   *)
(*                                                                         *)
(* The two programs that read the files a merge run writes are modelled    *)
(* too: the effect-annotation converter prephix2snpeffect.py and the SNP   *)
(* comparator snp_compare3.py.                                             *)
(***************************************************************************)
EXTENDS Integers, Sequences, FiniteSets, TLC

(***************************************************************************)
(* Bounds of the model.                                                    *)
(***************************************************************************)
MaxFiles == 2
MaxLines == 2
MaxExclusions == 2
MaxFileLen == 3
MaxSnpRows == 3

FileNames == {"f1", "f2"}
HeaderStrains == {"s1"}
Labels == {"r1", "r2"}
Chroms == {"x", "y"}
Cols == {1, 2}

(***************************************************************************)
(* Input lines.                                                            *)
(***************************************************************************)
NoBase == << >>

MkLine(kind, chrom, col, sample, ref, filter) ==
    [kind |-> kind, chrom |-> chrom, col |-> col,
     sample_base |-> sample, ref_base |-> ref, filter |-> filter]

\* <<sample_base, ref_base>> of single-base substitutions
SNPPairs ==
    { << <<"G">>, <<"A">> >>,
      << <<"T">>, <<"A">> >>,
      << <<"A">>, <<"G">> >> }

\* <<sample_base, ref_base>> of a k28 or nucmer data line: each is [ATCG]*
BasePairs ==
    SNPPairs \cup
    { << NoBase, <<"A">> >>,
      << <<"A", "G">>, <<"A">> >>,
      << <<"A">>, NoBase >>,
      << <<"A">>, <<"A", "G">> >>,
      << NoBase, NoBase >>,
      << NoBase, <<"A", "G">> >>,
      << <<"A", "G">>, NoBase >>,
      << <<"A", "G">>, <<"G", "A">> >> }

\* <<sample_base, ref_base>> of a VCF data line: each is [ATCGN,]+
VCFBasePairs ==
    SNPPairs \cup
    { << <<"A">>, <<"A", "G">> >>,
      << <<"A", "G">>, <<"A">> >>,
      << <<"G", "A">>, <<"A", "G">> >>,
      << <<"A", ",", "G">>, <<"N">> >> }

Filters == {"PASS", "q10"}

\* "0 <col> left= sample=<s> ref=<r> right="
K28Line(col, pair) == MkLine("k28", "", col, pair[1], pair[2], "")
\* "<col> TAB <ref> TAB <sample> TAB 0 ..."
NucmerLine(col, pair) == MkLine("nucmer", "", col, pair[1], pair[2], "")
\* "<chrom> TAB <col> TAB . TAB <ref> TAB <sample> TAB . TAB <filter> TAB ..."
VCFLine(chrom, col, pair, filter) ==
    MkLine("vcf", chrom, col, pair[1], pair[2], filter)
\* "<chrom> TAB <col> TAB . TAB <ref> TAB <sample> TAB . TAB <filter>": seven
\* fields, and nothing after the filter field
VCFSevenFieldLine(chrom, col, pair, filter) ==
    MkLine("vcf7", chrom, col, pair[1], pair[2], filter)
\* "#..." without a tab, and a line of no known shape (a blank line)
CommentLine == MkLine("comment", "", 0, NoBase, NoBase, "")
BlankLine == MkLine("blank", "", 0, NoBase, NoBase, "")

K28Lines == { K28Line(c, p) : c \in Cols, p \in BasePairs }
NucmerLines == { NucmerLine(c, p) : c \in Cols, p \in BasePairs }
VCFLines ==
    { VCFLine(ch, c, p, f) :
        ch \in Chroms, c \in Cols, p \in VCFBasePairs, f \in Filters }

(***************************************************************************)
(* Header lines, and the patterns that look at them.                       *)
(***************************************************************************)
HeadLine(kind, strain) == [kind |-> kind, strain |-> strain]

\* "#<strain>/<reference>" and "><genbank id>" of a k28.out file
K28StrainLine(strain) == HeadLine("k28strain", strain)
GtLine == HeadLine("gt", "")
\* "/path/to/reference /path/to/<strain>", "NUCMER" and "[P1] [SUB] ..."
PathsLine(strain) == HeadLine("paths", strain)
NucmerMarker == HeadLine("NUCMER", "")
P1Line == HeadLine("p1", "")
\* "##fileformat=VCFv4.1", "##fileformat=VCF/4.1" and "#CHROM POS ID ..."
VCFMarker == HeadLine("vcfformat", "")
VCFSlashMarker == HeadLine("vcfslash", "#fileformat=VCF")
ChromLine == HeadLine("chrom", "")

\* k28Re "^#(.+?)\/", nucmerRe "^NUCMER$", vcfRe "^##fileformat=VCF"
K28ReMatch(line) == line.kind \in {"k28strain", "vcfslash"}
NucmerReMatch(line) == line.kind = "NUCMER"
VcfReMatch(line) == line.kind \in {"vcfformat", "vcfslash"}

\* line.startswith("#") and re.match("^(#|>)", line)
StartsWithHash(line) ==
    line.kind \in {"comment", "k28strain", "vcfformat", "vcfslash", "chrom"}
HashOrGt(line) == StartsWithHash(line) \/ line.kind = "gt"

\* the strainRe of the k28 and of the nucmer reader, "^#CHROM\s+POS\s+ID"
\* and "^\[P1\]"
K28StrainMatch(line) == line.kind \in {"k28strain", "vcfslash"}
NucmerStrainMatch(line) == line.kind = "paths"
ChromMatch(line) == line.kind = "chrom"
P1Match(line) == line.kind = "p1"

(***************************************************************************)
(* SNPInputReader.py: what one reader yields for one line.                 *)
(***************************************************************************)
IntLocus(n) == <<n>>
StrLocus(chrom, n) == <<chrom, n>>
IsIntLocus(locus) == Len(locus) = 1

\* k28lineRe, nucmerlineRe, vcflineRe: does the line match; vcflineRe ends
\* with the tab that follows the filter field
K28LineMatch(line) == line.kind = "k28"
NucmerLineMatch(line) == line.kind = "nucmer"
VCFLineMatch(line) == line.kind = "vcf"

\* faulty variant of K28RealLocus: the offset is left out
K28RealLocusNoOffset(line) == IntLocus(line.col)

\* VAAL k28.out file loci is offset by +1
K28RealLocus(line) == IntLocus(line.col + 1)
NucmerRealLocus(line) == IntLocus(line.col)
VCFRealLocus(line, multi) ==
    IF multi THEN StrLocus(line.chrom, line.col) ELSE IntLocus(line.col)

MkRecord(line, lineNo, locus, isIndel, isInsert, isDelete) ==
    [rawLine |-> line, lineNumber |-> lineNo, locus |-> locus,
     snpBase |-> line.sample_base, refBase |-> line.ref_base,
     isIndel |-> isIndel, isInsert |-> isInsert, isDelete |-> isDelete]

\* faulty variant of K28Record: the reference base is tested first
K28RecordRefFirst(line, lineNo) ==
    LET snpBase == line.sample_base
        refBase == line.ref_base
        locus == K28RealLocus(line)
    IN  IF Len(refBase) # 1
        THEN IF Len(refBase) = 0
             THEN MkRecord(line, lineNo, locus, TRUE, TRUE, FALSE)
             ELSE MkRecord(line, lineNo, locus, TRUE, FALSE, TRUE)
        ELSE IF Len(snpBase) # 1
        THEN IF Len(snpBase) = 0
             THEN MkRecord(line, lineNo, locus, TRUE, FALSE, TRUE)
             ELSE MkRecord(line, lineNo, locus, TRUE, TRUE, FALSE)
        ELSE MkRecord(line, lineNo, locus, FALSE, FALSE, FALSE)

\* the indel test of the k28 reader
K28Record(line, lineNo) ==
    LET snpBase == line.sample_base
        refBase == line.ref_base
        locus == K28RealLocus(line)
    IN  IF Len(snpBase) # 1
        THEN IF Len(snpBase) = 0
             THEN MkRecord(line, lineNo, locus, TRUE, FALSE, TRUE)
             ELSE MkRecord(line, lineNo, locus, TRUE, TRUE, FALSE)
        ELSE IF Len(refBase) # 1
        THEN IF Len(refBase) = 0
             THEN MkRecord(line, lineNo, locus, TRUE, TRUE, FALSE)
             ELSE MkRecord(line, lineNo, locus, TRUE, FALSE, TRUE)
        ELSE MkRecord(line, lineNo, locus, FALSE, FALSE, FALSE)

\* faulty variant of NucmerRecord: an empty reference base gives an indel
\* of no kind
NucmerRecordNoKind(line, lineNo) ==
    LET snpBase == line.sample_base
        refBase == line.ref_base
        locus == NucmerRealLocus(line)
    IN  IF Len(snpBase) # 1
        THEN IF Len(snpBase) = 0
             THEN MkRecord(line, lineNo, locus, TRUE, FALSE, TRUE)
             ELSE MkRecord(line, lineNo, locus, TRUE, TRUE, FALSE)
        ELSE IF Len(refBase) # 1
        THEN IF Len(refBase) = 0
             THEN MkRecord(line, lineNo, locus, TRUE, FALSE, FALSE)
             ELSE MkRecord(line, lineNo, locus, TRUE, FALSE, TRUE)
        ELSE MkRecord(line, lineNo, locus, FALSE, FALSE, FALSE)

\* the indel test of the nucmer reader
NucmerRecord(line, lineNo) ==
    LET snpBase == line.sample_base
        refBase == line.ref_base
        locus == NucmerRealLocus(line)
    IN  IF Len(snpBase) # 1
        THEN IF Len(snpBase) = 0
             THEN MkRecord(line, lineNo, locus, TRUE, FALSE, TRUE)
             ELSE MkRecord(line, lineNo, locus, TRUE, TRUE, FALSE)
        ELSE IF Len(refBase) # 1
        THEN IF Len(refBase) = 0
             THEN MkRecord(line, lineNo, locus, TRUE, TRUE, FALSE)
             ELSE MkRecord(line, lineNo, locus, TRUE, FALSE, TRUE)
        ELSE MkRecord(line, lineNo, locus, FALSE, FALSE, FALSE)

\* faulty variant of VCFRecord: the indel test of the k28 reader is used
VCFRecordSingleBase(line, lineNo, multi) ==
    LET snpBase == line.sample_base
        refBase == line.ref_base
        locus == VCFRealLocus(line, multi)
    IN  IF Len(snpBase) # 1
        THEN IF Len(snpBase) = 0
             THEN MkRecord(line, lineNo, locus, TRUE, FALSE, TRUE)
             ELSE MkRecord(line, lineNo, locus, TRUE, TRUE, FALSE)
        ELSE IF Len(refBase) # 1
        THEN IF Len(refBase) = 0
             THEN MkRecord(line, lineNo, locus, TRUE, TRUE, FALSE)
             ELSE MkRecord(line, lineNo, locus, TRUE, FALSE, TRUE)
        ELSE MkRecord(line, lineNo, locus, FALSE, FALSE, FALSE)

\* the indel test of the VCF reader
VCFRecord(line, lineNo, multi) ==
    LET snpBase == line.sample_base
        refBase == line.ref_base
        locus == VCFRealLocus(line, multi)
    IN  IF Len(snpBase) # Len(refBase)
        THEN IF Len(snpBase) < Len(refBase)
             THEN MkRecord(line, lineNo, locus, TRUE, FALSE, TRUE)
             ELSE MkRecord(line, lineNo, locus, TRUE, TRUE, FALSE)
        ELSE MkRecord(line, lineNo, locus, FALSE, FALSE, FALSE)

\* The lines the constructor passes before the first data line:
\* k28 "#<strain>/<ref>" and ">..."; nucmer the two paths, "NUCMER", a blank
\* line and "[P1] ..."; VCF "##fileformat=VCF" and "#CHROM POS ID ...".
HeaderLines(format) ==
    IF format = "nucmer" THEN 4 ELSE 2

\* One pass of the while loop of __iter__ over the line at the cursor:
\* "skip" (continue), "raise" (SNPFileUnrecognizedLineError) or "yield".
K28Step(line) ==
    IF StartsWithHash(line) THEN "skip"
    ELSE IF K28LineMatch(line) THEN "yield" ELSE "raise"
NucmerStep(line) ==
    IF NucmerLineMatch(line) THEN "yield" ELSE "raise"
\* faulty variant of VCFStep: the filter field is not looked at
VCFStepNoFilter(line, filterQ) ==
    IF VCFLineMatch(line) THEN "yield" ELSE "raise"

VCFStep(line, filterQ) ==
    IF VCFLineMatch(line)
    THEN IF filterQ /\ line.filter # "PASS" THEN "skip" ELSE "yield"
    ELSE "raise"

ReaderStep(format, line, filterQ) ==
    IF format = "k28" THEN K28Step(line)
    ELSE IF format = "nucmer" THEN NucmerStep(line)
    ELSE VCFStep(line, filterQ)

ReaderRecord(format, line, lineNo, multi) ==
    IF format = "k28" THEN K28Record(line, lineNo)
    ELSE IF format = "nucmer" THEN NucmerRecord(line, lineNo)
    ELSE VCFRecord(line, lineNo, multi)

(***************************************************************************)
(* getSNPFileReader: the format sniffer, and the constructors of the three *)
(* readers, which find the strain and leave the cursor lineNumber on the   *)
(* first data line.                                                        *)
(***************************************************************************)
\* faulty variant of MarkerFormat: the VCF marker is tested first
MarkerFormatVcfFirst(line) ==
    IF VcfReMatch(line) THEN "vcf"
    ELSE IF K28ReMatch(line) THEN "k28"
    ELSE IF NucmerReMatch(line) THEN "nucmer"
    ELSE "unknown"

\* the if/elif chain over one line of the file
MarkerFormat(line) ==
    IF K28ReMatch(line) THEN "k28"
    ELSE IF NucmerReMatch(line) THEN "nucmer"
    ELSE IF VcfReMatch(line) THEN "vcf"
    ELSE "unknown"

\* for line in inputFile: ... break
RECURSIVE SniffFrom(_, _)
SniffFrom(lines, i) ==
    IF i > Len(lines) THEN "unknown"
    ELSE IF MarkerFormat(lines[i]) # "unknown" THEN MarkerFormat(lines[i])
    ELSE SniffFrom(lines, i + 1)

SniffFormat(lines) == SniffFrom(lines, 1)

\* the least index of a set of line indices, 0 if there is none
FirstIndex(S) ==
    IF S = {} THEN 0 ELSE CHOOSE i \in S : \A j \in S : i <= j

\* where "for line in self._fileLines: self.lineNumber += 1 ... break" stops
ForLoopStop(lines, found) == IF found = 0 THEN Len(lines) ELSE found

\* K28FileReader.__init__: the strain of the first "#<strain>/" line, then
\* skip the lines that begin with # or >
K28Init(lines) ==
    LET found == FirstIndex({ i \in 1..Len(lines) :
                                K28StrainMatch(lines[i]) })
        data == FirstIndex({ i \in ForLoopStop(lines, found)..Len(lines) :
                               ~HashOrGt(lines[i]) })
    IN  [strainID |-> IF found = 0 THEN "None" ELSE lines[found].strain,
         lineNumber |-> IF data = 0 THEN Len(lines) + 1 ELSE data]

\* NucmerFileReader.__init__: the strain of the first line with the two
\* paths, then skip up to and over the "[P1]" line
NucmerInit(lines) ==
    LET found == FirstIndex({ i \in 1..Len(lines) :
                                NucmerStrainMatch(lines[i]) })
        p1 == FirstIndex({ i \in ForLoopStop(lines, found)..Len(lines) :
                             P1Match(lines[i]) })
    IN  [strainID |-> IF found = 0 THEN "None" ELSE lines[found].strain,
         lineNumber |-> IF p1 = 0 THEN Len(lines) + 1 ELSE p1 + 1]

\* faulty variant of VCFInit: the cursor stays on the "#CHROM" line
VCFInitOnHeader(lines, fileName) ==
    LET found == FirstIndex({ i \in 1..Len(lines) : ChromMatch(lines[i]) })
    IN  [strainID |-> fileName,
         lineNumber |-> ForLoopStop(lines, found)]

\* VCFFileReader.__init__: the strain is the base name of the file; skip up
\* to and over the "#CHROM POS ID" line
VCFInit(lines, fileName) ==
    LET found == FirstIndex({ i \in 1..Len(lines) : ChromMatch(lines[i]) })
    IN  [strainID |-> fileName,
         lineNumber |-> IF found = 0 THEN Len(lines) ELSE found + 1]

\* the reader getSNPFileReader returns for a file of a known format
NewReader(format, lines, fileName) ==
    IF format = "k28" THEN K28Init(lines)
    ELSE IF format = "nucmer" THEN NucmerInit(lines)
    ELSE VCFInit(lines, fileName)

\* The headers of the files of a merge run: a k28.out, a nucmer and a VCF
\* header, an empty file and a file of one blank line.
FileHeads(strain) ==
    { <<K28StrainLine(strain), GtLine>>,
      <<PathsLine(strain), NucmerMarker, BlankLine, P1Line>>,
      <<VCFMarker, ChromLine>>,
      << >>,
      <<BlankLine>> }

\* The lines the merge run draws for a file of the format: a substitution
\* at every column; at column 1 a second sample base, a second reference
\* base, a deletion and an insertion; a comment and a blank line; for
\* VCF alleles of equal length with a comma, and a substitution and a
\* deletion that fail the quality filter.
RefA == << <<"G">>, <<"A">> >>
RefAOtherSample == << <<"T">>, <<"A">> >>
RefG == << <<"A">>, <<"G">> >>
Deletion == << NoBase, <<"A">> >>
VCFDeletion == << <<"A">>, <<"A", "G">> >>
Insertion == << <<"A", "G">>, <<"A">> >>
VCFEqualLength == << <<"G", ",", "T">>, <<"A", "C", "G">> >>

BodyLines(format, multi) ==
    IF format = "k28"
    THEN { K28Line(c, RefA) : c \in Cols }
         \cup { K28Line(1, p) : p \in {RefAOtherSample, RefG, Deletion,
                                       Insertion} }
         \cup {CommentLine, BlankLine}
    ELSE IF format = "nucmer"
    THEN { NucmerLine(c, RefA) : c \in Cols }
         \cup { NucmerLine(1, p) : p \in {RefAOtherSample, RefG, Deletion,
                                          Insertion} }
         \cup {CommentLine, BlankLine}
    ELSE { VCFLine(ch, c, RefA, "PASS") :
             ch \in (IF multi THEN Chroms ELSE {"x"}), c \in Cols }
         \cup { VCFLine("x", 1, p, "PASS") :
                  p \in {RefAOtherSample, RefG, VCFDeletion, Insertion,
                         VCFEqualLength} }
         \cup {VCFLine("x", 1, RefA, "q10"),
               VCFLine("x", 1, VCFDeletion, "q10"), CommentLine, BlankLine}

(***************************************************************************)
(* Python 2 comparison of loci: ints compare by value, a str is greater    *)
(* than every int, two strs compare character by character.                *)
(***************************************************************************)
DigitChars == <<"0", "1", "2", "3", "4", "5", "6", "7", "8", "9">>

RECURSIVE Digits(_)
Digits(n) == IF n < 10 THEN <<DigitChars[n + 1]>>
             ELSE Append(Digits(n \div 10), DigitChars[(n % 10) + 1])

Ord(c) ==
    IF c = "-" THEN 45
    ELSE IF c = "x" THEN 120
    ELSE IF c = "y" THEN 121
    ELSE 47 + (CHOOSE i \in 1..10 : DigitChars[i] = c)

\* str(chrom) + '-' + str(locus)
StrText(locus) == <<locus[1], "-">> \o Digits(locus[2])

RECURSIVE SeqLess(_, _)
SeqLess(a, b) ==
    IF b = << >> THEN FALSE
    ELSE IF a = << >> THEN TRUE
    ELSE IF Ord(Head(a)) # Ord(Head(b)) THEN Ord(Head(a)) < Ord(Head(b))
    ELSE SeqLess(Tail(a), Tail(b))

\* faulty variant of PyLess: the order of int loci is reversed
PyLessReversed(a, b) ==
    IF IsIntLocus(a) /\ IsIntLocus(b) THEN a[1] > b[1]
    ELSE IF IsIntLocus(a) THEN TRUE
    ELSE IF IsIntLocus(b) THEN FALSE
    ELSE SeqLess(StrText(a), StrText(b))

PyLess(a, b) ==
    IF IsIntLocus(a) /\ IsIntLocus(b) THEN a[1] < b[1]
    ELSE IF IsIntLocus(a) THEN TRUE
    ELSE IF IsIntLocus(b) THEN FALSE
    ELSE SeqLess(StrText(a), StrText(b))

\* locus >= n and locus <= n for an int n
PyGE(locus, n) == IF IsIntLocus(locus) THEN locus[1] >= n ELSE TRUE
\* faulty variant of PyLE: the position of a "chrom-pos" locus is compared
PyLEByPosition(locus, n) == locus[Len(locus)] <= n
PyLE(locus, n) == IF IsIntLocus(locus) THEN locus[1] <= n ELSE FALSE

(***************************************************************************)
(* prephix.py: the state of a merge run.                                   *)
(***************************************************************************)
VARIABLES
    pc,               \* "exclude", "files", "iter", "done" or "failed"
    filterQuality,    \* -filter_quality
    multiChrom,       \* -multichrom
    inputFileList,    \* the input files not yet processed
    exclusionTable,   \* label -> <<start, end>>
    excludeCount,     \* lines read from the exclusion file
    statsTable,       \* strain -> <<SNPs, insertions, deletions, exclusions>>
    excludeDataTable, \* strain -> (label -> count)
    refDataTable,     \* locus -> <<base, file name, line number>>
    strainid,         \* of the file being processed
    fileFormat,
    shortFilename,
    lineNumber,       \* the reader's cursor: the next line to read
    fileLines,        \* the lines of the file the reader was built on
    outfile,          \* the rows of <batchid>.snp
    indelfile,        \* the rows of <batchid>.indel
    reffile,          \* the rows of <batchid>.ref
    errors,           \* the fatal error that ended the run, if any
    outMark,          \* history: Len(outfile) when the file was opened
    snpData,          \* the records a reader iterated on its own has yielded
    linesRead,        \* the body lines read in the run, capped by MaxLines
    generators,       \* the generators __iter__ has made of the reader
    \* prephix2snpeffect.py and snp_compare3.py
    snpFile,          \* the rows of the SNP file the program is given
    snpPos,           \* the row "for snpLine in snpFile" reads next
    convPc,           \* "idle", "load", "convert", "done" or "failed"
    SNP_DATA,         \* the rows of the table, in the order of insertion
    refFile,          \* the rows of the reference file
    refPos,           \* the row "for refLine in refFile" reads next
    outFile,          \* the lines of <ref_file>.snpeffect
    dupTracker,       \* the keys of the lines written
    convError,        \* what ended the conversion, if anything did
    cmpPc,            \* "idle", "read", "report", "done" or "failed"
    compareList,      \* --compare
    excludeList,      \* --exclude
    currentStrainID,
    currentStrainLociList,
    snpCompareTable,  \* strain -> set of <<locus, base>>
    snpExcludeTable,
    commonSet,
    exclusionSet,
    finalSet

vars == <<pc, filterQuality, multiChrom, inputFileList, exclusionTable,
          excludeCount, statsTable, excludeDataTable, refDataTable, strainid,
          fileFormat, shortFilename, lineNumber, fileLines, outfile,
          indelfile, reffile, errors, outMark, snpData, linesRead,
          generators, snpFile, snpPos, convPc, SNP_DATA, refFile, refPos,
          outFile, dupTracker, convError, cmpPc, compareList, excludeList,
          currentStrainID, currentStrainLociList, snpCompareTable,
          snpExcludeTable, commonSet, exclusionSet, finalSet>>

config == <<filterQuality, multiChrom>>
tables == <<statsTable, excludeDataTable, refDataTable>>
outputs == <<outfile, indelfile, reffile>>
reader == <<strainid, fileFormat, shortFilename, lineNumber, outMark>>
merge == <<pc, config, inputFileList, exclusionTable, excludeCount, tables,
           reader, fileLines, outputs, errors, snpData, linesRead, generators>>
converter == <<snpFile, snpPos, convPc, SNP_DATA, refFile, refPos, outFile,
               dupTracker, convError>>
comparator == <<cmpPc, compareList, excludeList, currentStrainID,
                currentStrainLociList, snpCompareTable, snpExcludeTable,
                commonSet, exclusionSet, finalSet>>

\* The generators made of one reader, as "for snpData in snpFileReader"
\* makes one: a generator is "new" until its first pass of the while loop,
\* "ended" once it has found the loop condition false or has raised, and
\* lines holds the line numbers of the records it has yielded.
Generators == {1, 2}
NewGenerator == [state |-> "new", lines |-> << >>]

RECURSIVE SeqsUpTo(_, _)
SeqsUpTo(S, n) ==
    IF n = 0 THEN {<< >>}
    ELSE LET shorter == SeqsUpTo(S, n - 1)
         IN  shorter \cup { Append(q, x) : q \in shorter, x \in S }

\* File names are interchangeable: the file processed first is f1.
FileLists ==
    { q \in SeqsUpTo(FileNames, MaxFiles) : q = << >> \/ q[Len(q)] = "f1" }

InitCommon ==
    /\ pc = "exclude"
    /\ inputFileList \in FileLists
    /\ exclusionTable = << >>
    /\ excludeCount = 0
    /\ statsTable = << >>
    /\ excludeDataTable = << >>
    /\ refDataTable = << >>
    /\ strainid = ""
    /\ fileFormat = ""
    /\ shortFilename = ""
    /\ lineNumber = 0
    /\ outfile = << >>
    /\ indelfile = << >>
    /\ reffile = << >>
    /\ errors = << >>
    /\ outMark = 0
    /\ snpData = << >>
    /\ linesRead = 0
    /\ generators = [g \in Generators |-> NewGenerator]

\* prephix2snpeffect.py has not been started
ConverterIdle ==
    /\ snpFile = << >>
    /\ snpPos = 1
    /\ convPc = "idle"
    /\ SNP_DATA = << >>
    /\ refFile = << >>
    /\ refPos = 1
    /\ outFile = << >>
    /\ dupTracker = {}
    /\ convError = ""

\* snp_compare3.py has not been started
ComparatorIdle ==
    /\ cmpPc = "idle"
    /\ compareList = {}
    /\ excludeList = {}
    /\ currentStrainID = ""
    /\ currentStrainLociList = << >>
    /\ snpCompareTable = << >>
    /\ snpExcludeTable = << >>
    /\ commonSet = {}
    /\ exclusionSet = {}
    /\ finalSet = {}

\* The merge run is started with -filter_quality, so that VCF lines are both
\* filtered and yielded, and without -multichrom.
Init ==
    /\ InitCommon
    /\ ConverterIdle
    /\ ComparatorIdle
    /\ filterQuality = TRUE
    /\ multiChrom = FALSE
    /\ fileLines = << >>

\* faulty variant of Fail: the error is reported and the run goes on
FailNoExit(err) ==
    /\ pc' = pc
    /\ errors' = <<err>>

\* sys.exit(1), or an exception nothing catches
Fail(err) ==
    /\ pc' = "failed"
    /\ errors' = <<err>>

(***************************************************************************)
(* Reading the exclusion file (label,start_loci,end_loci per line).        *)
(***************************************************************************)
ExclusionRanges == { <<1, 2>>, <<2, 2>> }

\* faulty variant of ReadExclusion: a label read again replaces its range
ReadExclusionOverwrite(excludeLabel, range) ==
    /\ pc = "exclude"
    /\ excludeCount < MaxExclusions
    /\ excludeCount' = excludeCount + 1
    /\ exclusionTable' =
         [l \in DOMAIN exclusionTable \cup {excludeLabel} |->
            IF l = excludeLabel THEN range ELSE exclusionTable[l]]
    /\ UNCHANGED <<pc, errors>>
    /\ UNCHANGED <<config, inputFileList, tables, reader, fileLines, outputs,
                   snpData, linesRead>>
    /\ UNCHANGED <<generators, converter, comparator>>

\* the line "excludeLabel,start,end", which matches excludeRe
ReadExclusion(excludeLabel, range) ==
    /\ pc = "exclude"
    /\ excludeCount < MaxExclusions
    /\ excludeCount' = excludeCount + 1
    /\ IF excludeLabel \in DOMAIN exclusionTable
       THEN /\ Fail([kind |-> "DuplicateLabel", label |-> excludeLabel,
                     line |-> excludeCount + 1])
            /\ UNCHANGED exclusionTable
       ELSE /\ exclusionTable' = exclusionTable @@ (excludeLabel :> range)
            /\ UNCHANGED <<pc, errors>>
    /\ UNCHANGED <<config, inputFileList, tables, reader, fileLines, outputs,
                   snpData, linesRead>>
    /\ UNCHANGED <<generators, converter, comparator>>

\* one line of the exclusion file that matches excludeRe
ReadExclusionLine ==
    \E excludeLabel \in Labels, range \in ExclusionRanges :
        ReadExclusion(excludeLabel, range)

\* one line of the exclusion file that does not match excludeRe
BadExclusionLine ==
    /\ pc = "exclude"
    /\ excludeCount < MaxExclusions
    /\ excludeCount' = excludeCount + 1
    /\ Fail([kind |-> "BadExclusionLine", line |-> excludeCount + 1])
    /\ UNCHANGED <<config, inputFileList, exclusionTable, tables, reader,
                   fileLines, outputs, snpData, linesRead>>
    /\ UNCHANGED <<generators, converter, comparator>>

\* the end of the exclusion file, or no exclusion file at all
ExclusionsRead ==
    /\ pc = "exclude"
    /\ pc' = "files"
    /\ UNCHANGED <<config, inputFileList, exclusionTable, excludeCount, tables,
                   reader, fileLines, outputs, errors, snpData, linesRead>>
    /\ UNCHANGED <<generators, converter, comparator>>

(***************************************************************************)
(* The loop over the input files.                                          *)
(***************************************************************************)
Last(q) == q[Len(q)]
Front(q) == SubSeq(q, 1, Len(q) - 1)

\* faulty variant of StatsInit: the entry of a strain seen before is kept
StatsInitOnce(stats, strain) ==
    [s \in DOMAIN stats \cup {strain} |->
        IF s \in DOMAIN stats THEN stats[s] ELSE <<0, 0, 0, 0>>]

\* Initialize stats entry for this strain.
StatsInit(stats, strain) ==
    [s \in DOMAIN stats \cup {strain} |->
        IF s = strain THEN <<0, 0, 0, 0>> ELSE stats[s]]

\* faulty variant of UnknownFormat: the file is skipped and the run goes on
UnknownFormatSkipped(file) ==
    UNCHANGED <<pc, errors, tables, reader>>

\* raise NotImplementedError, which the except clause of the caller does
\* not catch
UnknownFormat(file) ==
    /\ Fail([kind |-> "NotImplementedError", file |-> file])
    /\ UNCHANGED <<tables, reader>>

\* getSNPFileReader: the format the sniffer finds and the reader it builds.
\* The strain of a VCF reader is the base name of the file; the k28 and
\* nucmer readers take it from the header.
OpenFile ==
    /\ pc = "files"
    /\ inputFileList # << >>
    /\ inputFileList' = Front(inputFileList)
    /\ \E header \in HeaderStrains : fileLines' \in FileHeads(header)
    /\ LET format == SniffFormat(fileLines')
           rdr == NewReader(format, fileLines', Last(inputFileList))
       IN  IF format = "unknown"
           THEN UnknownFormat(Last(inputFileList))
           ELSE /\ pc' = "iter"
                /\ strainid' = rdr.strainID
                /\ fileFormat' = format
                /\ shortFilename' = Last(inputFileList)
                /\ lineNumber' = rdr.lineNumber
                /\ outMark' = Len(outfile)
                /\ statsTable' = StatsInit(statsTable, rdr.strainID)
                /\ UNCHANGED <<excludeDataTable, refDataTable, errors>>
    /\ UNCHANGED <<config, exclusionTable, excludeCount, outputs, snpData,
                   linesRead>>
    /\ UNCHANGED <<generators, converter, comparator>>

(***************************************************************************)
(* The body of the loop over the records of one file.                      *)
(***************************************************************************)
IndelType(rec) ==
    IF rec.isInsert THEN "INS" ELSE IF rec.isDelete THEN "DEL" ELSE "unknown"

\* statsTable[strainid][i] += n   (i counts from 1 here, from 0 in Python)
Bump(stats, strain, i, n) ==
    [stats EXCEPT ![strain] = [@ EXCEPT ![i] = @ + n]]

\* faulty variant of CountIndel: deletions go to the insertion counter
CountIndelOneSlot(stats, strain, rec) ==
    IF ~rec.isIndel THEN stats
    ELSE IF rec.isInsert THEN Bump(stats, strain, 2, 1)
    ELSE IF rec.isDelete THEN Bump(stats, strain, 2, 1)
    ELSE stats

\* the insertion and deletion counters
CountIndel(stats, strain, rec) ==
    IF ~rec.isIndel THEN stats
    ELSE IF rec.isInsert THEN Bump(stats, strain, 2, 1)
    ELSE IF rec.isDelete THEN Bump(stats, strain, 3, 1)
    ELSE stats

\* faulty variant of InRange: the bounds are exclusive
InRangeExclusive(locus, range) ==
    /\ PyGE(locus, range[1] + 1)
    /\ PyLE(locus, range[2] - 1)

\* locus >= excludeStartLocus and locus <= excludeEndLocus
InRange(locus, range) == PyGE(locus, range[1]) /\ PyLE(locus, range[2])

\* the labels for which the loop over exclusionTable finds the locus in range
ExcludeHits(table, locus) ==
    { l \in DOMAIN table : InRange(locus, table[l]) }

\* faulty variant of CountExcluded: one label is counted for a record
CountExcludedOneLabel(data, strain, hits) ==
    IF hits = {} THEN data
    ELSE LET hit == CHOOSE l \in hits : TRUE
         IN  [s \in DOMAIN data \cup {strain} |->
                IF s # strain THEN data[s]
                ELSE LET old == IF strain \in DOMAIN data THEN data[strain]
                                ELSE << >>
                     IN  [l \in DOMAIN old \cup {hit} |->
                            IF l # hit THEN old[l]
                            ELSE IF l \in DOMAIN old THEN old[l] + 1 ELSE 1]]

\* excludeDataTable after the loop over exclusionTable
CountExcluded(data, strain, hits) ==
    IF hits = {} THEN data
    ELSE [s \in DOMAIN data \cup {strain} |->
            IF s # strain THEN data[s]
            ELSE LET old == IF strain \in DOMAIN data THEN data[strain]
                            ELSE << >>
                 IN  [l \in DOMAIN old \cup hits |->
                        IF l \notin hits THEN old[l]
                        ELSE IF l \in DOMAIN old THEN old[l] + 1 ELSE 1]]

\* a collision with existing reference base data at the same locus
RefMismatch(table, locus, refBase) ==
    locus \in DOMAIN table /\ table[locus][1] # refBase

\* faulty variant of RefInsert: the entry of a recorded locus is replaced
RefInsertOverwrite(table, locus, refBase, file, lineNo) ==
    [l \in DOMAIN table \cup {locus} |->
        IF l = locus THEN <<refBase, file, lineNo>> ELSE table[l]]

\* If no collision, add it to the reference data table.
RefInsert(table, locus, refBase, file, lineNo) ==
    IF locus \in DOMAIN table THEN table
    ELSE table @@ (locus :> <<refBase, file, lineNo>>)

\* faulty variant of MismatchError: both sources are the recorded one
MismatchErrorOneSource(table, rec, file) ==
    [kind |-> "RefMismatch", locus |-> rec.locus,
     file |-> table[rec.locus][2], line |-> table[rec.locus][3],
     ref |-> rec.refBase, recorded |-> table[rec.locus][1],
     recordedFile |-> table[rec.locus][2],
     recordedLine |-> table[rec.locus][3]]

\* the mismatch message: locus, file, line and base of the record, then the
\* recorded base, file and line
MismatchError(table, rec, file) ==
    [kind |-> "RefMismatch", locus |-> rec.locus, file |-> file,
     line |-> rec.lineNumber, ref |-> rec.refBase,
     recorded |-> table[rec.locus][1], recordedFile |-> table[rec.locus][2],
     recordedLine |-> table[rec.locus][3]]

\* faulty variant of ProcessRecord: an excluded record makes a reference
\* entry
ProcessRecordRefAlways(rec) ==
    LET unknownIndel == rec.isIndel /\ IndelType(rec) = "unknown"
        hits == ExcludeHits(exclusionTable, rec.locus)
        excluded == hits # {}
        skipped == excluded \/ rec.isIndel
        stats1 == CountIndel(statsTable, strainid, rec)
        stats2 == Bump(stats1, strainid, 4, Cardinality(hits))
    IN  IF unknownIndel
        THEN /\ Fail([kind |-> "UnknownIndel", line |-> rec.lineNumber])
             /\ UNCHANGED <<tables, outputs>>
        ELSE /\ indelfile' =
                  IF rec.isIndel
                  THEN Append(indelfile, <<strainid, fileFormat, rec.rawLine,
                                           IndelType(rec)>>)
                  ELSE indelfile
             /\ excludeDataTable' =
                  CountExcluded(excludeDataTable, strainid, hits)
             /\ UNCHANGED reffile
             /\ IF skipped
                THEN /\ statsTable' = stats2
                     /\ refDataTable' =
                          IF rec.isIndel THEN refDataTable
                          ELSE RefInsert(refDataTable, rec.locus, rec.refBase,
                                         shortFilename, rec.lineNumber)
                     /\ UNCHANGED <<outfile, pc, errors>>
                ELSE /\ outfile' =
                          Append(outfile, <<strainid, rec.locus, rec.snpBase>>)
                     /\ statsTable' = Bump(stats2, strainid, 1, 1)
                     /\ IF RefMismatch(refDataTable, rec.locus, rec.refBase)
                        THEN /\ Fail(MismatchError(refDataTable, rec,
                                                   shortFilename))
                             /\ UNCHANGED refDataTable
                        ELSE /\ refDataTable' =
                                  RefInsert(refDataTable, rec.locus,
                                            rec.refBase, shortFilename,
                                            rec.lineNumber)
                             /\ UNCHANGED <<pc, errors>>

\* one pass of the loop "for snpData in snpFileReader"
ProcessRecord(rec) ==
    LET unknownIndel == rec.isIndel /\ IndelType(rec) = "unknown"
        hits == ExcludeHits(exclusionTable, rec.locus)
        excluded == hits # {}
        skipped == excluded \/ rec.isIndel
        stats1 == CountIndel(statsTable, strainid, rec)
        stats2 == Bump(stats1, strainid, 4, Cardinality(hits))
    IN  IF unknownIndel
        THEN /\ Fail([kind |-> "UnknownIndel", line |-> rec.lineNumber])
             /\ UNCHANGED <<tables, outputs>>
        ELSE /\ indelfile' =
                  IF rec.isIndel
                  THEN Append(indelfile, <<strainid, fileFormat, rec.rawLine,
                                           IndelType(rec)>>)
                  ELSE indelfile
             /\ excludeDataTable' =
                  CountExcluded(excludeDataTable, strainid, hits)
             /\ UNCHANGED reffile
             /\ IF skipped
                THEN /\ statsTable' = stats2
                     /\ UNCHANGED <<outfile, refDataTable, pc, errors>>
                ELSE /\ outfile' =
                          Append(outfile, <<strainid, rec.locus, rec.snpBase>>)
                     /\ statsTable' = Bump(stats2, strainid, 1, 1)
                     /\ IF RefMismatch(refDataTable, rec.locus, rec.refBase)
                        THEN /\ Fail(MismatchError(refDataTable, rec,
                                                   shortFilename))
                             /\ UNCHANGED refDataTable
                        ELSE /\ refDataTable' =
                                  RefInsert(refDataTable, rec.locus,
                                            rec.refBase, shortFilename,
                                            rec.lineNumber)
                             /\ UNCHANGED <<pc, errors>>

\* faulty variant of UnrecognizedLine: the cursor after the increment
UnrecognizedLineCursor(line, lineNo) ==
    [kind |-> "UnrecognizedLine", line |-> lineNo + 1, text |-> line]

\* SNPFileUnrecognizedLineError(message, lineNumber, line)
UnrecognizedLine(line, lineNo) ==
    [kind |-> "UnrecognizedLine", line |-> lineNo, text |-> line]

\* One pass of the reader's loop over the line at the cursor and, when the
\* reader yields, one pass of the merge loop over the record.
ReadLine(line) ==
    /\ pc = "iter"
    /\ lineNumber' = lineNumber + 1
    /\ linesRead' = linesRead + 1
    /\ LET step == ReaderStep(fileFormat, line, filterQuality)
       IN  IF step = "skip"
           THEN UNCHANGED <<pc, errors, tables, outputs>>
           ELSE IF step = "raise"
           THEN /\ Fail(UnrecognizedLine(line, lineNumber))
                /\ UNCHANGED <<tables, outputs>>
           ELSE ProcessRecord(ReaderRecord(fileFormat, line, lineNumber,
                                           multiChrom))
    /\ UNCHANGED <<config, inputFileList, exclusionTable, excludeCount,
                   strainid, fileFormat, shortFilename, fileLines, outMark,
                   snpData>>
    /\ UNCHANGED <<generators, converter, comparator>>

\* The file has a line at the cursor: lineNumber <= len(_fileLines).
NextLine ==
    /\ linesRead < MaxLines
    /\ \E line \in BodyLines(fileFormat, multiChrom) : ReadLine(line)

Placeholder(strain) == <<strain, IntLocus(-1), <<"-">> >>

\* The reader is exhausted: lineNumber > len(_fileLines).
EndOfFile ==
    /\ pc = "iter"
    /\ pc' = "files"
    \* If snp input file was empty, write a placeholder for it.
    /\ outfile' = IF statsTable[strainid][1] = 0
                  THEN Append(outfile, Placeholder(strainid))
                  ELSE outfile
    /\ UNCHANGED <<config, inputFileList, exclusionTable, excludeCount, tables,
                   reader, fileLines, indelfile, reffile, errors, snpData,
                   linesRead>>
    /\ UNCHANGED <<generators, converter, comparator>>

\* refDataTableKeyList.sort()
RECURSIVE SortLoci(_)
SortLoci(S) ==
    IF S = {} THEN << >>
    ELSE LET least == CHOOSE a \in S : \A b \in S \ {a} : PyLess(a, b)
         IN  <<least>> \o SortLoci(S \ {least})

\* Write out the reference file from the table of merged ref loci bases.
WriteReference ==
    /\ pc = "files"
    /\ inputFileList = << >>
    /\ pc' = "done"
    /\ reffile' = LET keys == SortLoci(DOMAIN refDataTable)
                  IN  [i \in 1..Len(keys) |->
                         <<keys[i], refDataTable[keys[i]][1]>>]
    /\ UNCHANGED <<config, inputFileList, exclusionTable, excludeCount, tables,
                   reader, fileLines, outfile, indelfile, errors, snpData,
                   linesRead>>
    /\ UNCHANGED <<generators, converter, comparator>>

Next ==
    \/ ReadExclusionLine
    \/ BadExclusionLine
    \/ ExclusionsRead
    \/ OpenFile
    \/ NextLine
    \/ EndOfFile
    \/ WriteReference

Spec == Init /\ [][Next]_vars

\* The merge run of at most one input file, with and without
\* -filter_quality and -multichrom.
FlagInit ==
    /\ InitCommon
    /\ ConverterIdle
    /\ ComparatorIdle
    /\ Len(inputFileList) <= 1
    /\ filterQuality \in BOOLEAN
    /\ multiChrom \in BOOLEAN
    /\ fileLines = << >>

FlagSpec == FlagInit /\ [][Next]_vars

(***************************************************************************)
(* A reader iterated on its own: every line its format's pattern can match *)
(* is drawn, and the record it yields is kept in snpData.                  *)
(***************************************************************************)
VCFSevenFieldLines ==
    { VCFSevenFieldLine("x", 1, RefA, f) : f \in Filters }

ReaderLines(format) ==
    (IF format = "k28" THEN K28Lines
     ELSE IF format = "nucmer" THEN NucmerLines
     ELSE VCFLines \cup VCFSevenFieldLines) \cup {CommentLine, BlankLine}

ReaderInit ==
    /\ InitCommon
    /\ ConverterIdle
    /\ ComparatorIdle
    /\ filterQuality \in BOOLEAN
    /\ multiChrom \in BOOLEAN
    /\ inputFileList = << >>
    /\ fileLines = << >>

\* getSNPFileReader(fileName, filterQuality, multiChrom)
ReaderOpen ==
    /\ pc = "exclude"
    /\ pc' = "iter"
    /\ fileFormat' \in {"k28", "nucmer", "vcf"}
    /\ lineNumber' = HeaderLines(fileFormat') + 1
    /\ UNCHANGED <<config, inputFileList, exclusionTable, excludeCount, tables,
                   strainid, shortFilename, fileLines, outMark, outputs,
                   errors, snpData, linesRead>>
    /\ UNCHANGED <<generators, converter, comparator>>

\* one pass of the while loop of __iter__
ReaderIterate ==
    /\ pc = "iter"
    /\ linesRead < MaxLines
    /\ lineNumber' = lineNumber + 1
    /\ linesRead' = linesRead + 1
    /\ \E line \in ReaderLines(fileFormat) :
         LET step == ReaderStep(fileFormat, line, filterQuality)
         IN  IF step = "skip"
             THEN UNCHANGED <<pc, errors, snpData>>
             ELSE IF step = "raise"
             THEN /\ Fail(UnrecognizedLine(line, lineNumber))
                  /\ UNCHANGED snpData
             ELSE /\ snpData' = <<ReaderRecord(fileFormat, line, lineNumber,
                                              multiChrom)>>
                  /\ UNCHANGED <<pc, errors>>
    /\ UNCHANGED <<config, inputFileList, exclusionTable, excludeCount, tables,
                   strainid, fileFormat, shortFilename, fileLines, outMark,
                   outputs>>
    /\ UNCHANGED <<generators, converter, comparator>>

\* the while loop of __iter__ ends: lineNumber > len(_fileLines)
ReaderExhausted ==
    /\ pc = "iter"
    /\ pc' = "done"
    /\ UNCHANGED <<config, inputFileList, exclusionTable, excludeCount, tables,
                   reader, fileLines, outputs, errors, snpData, linesRead>>
    /\ UNCHANGED <<generators, converter, comparator>>

ReaderNext == ReaderOpen \/ ReaderIterate \/ ReaderExhausted

ReaderSpec == ReaderInit /\ [][ReaderNext]_vars

(***************************************************************************)
(* getSNPFileReader called on a whole file, and the reader it returns      *)
(* iterated to the end of the file.                                        *)
(***************************************************************************)
FileAlphabet ==
    { K28StrainLine("s1"), GtLine, CommentLine, PathsLine("s1"), NucmerMarker,
      P1Line, VCFMarker, VCFSlashMarker, ChromLine, BlankLine,
      K28Line(1, RefA), NucmerLine(1, RefA), VCFLine("x", 1, RefA, "PASS") }

Files == SeqsUpTo(FileAlphabet, MaxFileLen)

FileInit ==
    /\ InitCommon
    /\ ConverterIdle
    /\ ComparatorIdle
    /\ filterQuality = TRUE
    /\ multiChrom = FALSE
    /\ inputFileList = << >>
    /\ fileLines \in Files

\* getSNPFileReader(fileName, filterQuality, multiChrom)
FileOpen ==
    /\ pc = "exclude"
    /\ LET format == SniffFormat(fileLines)
           rdr == NewReader(format, fileLines, "f1")
       IN  IF format = "unknown"
           THEN UnknownFormat("f1")
           ELSE /\ pc' = "iter"
                /\ strainid' = rdr.strainID
                /\ fileFormat' = format
                /\ shortFilename' = "f1"
                /\ lineNumber' = rdr.lineNumber
                /\ UNCHANGED <<tables, outMark, errors>>
    /\ UNCHANGED <<config, inputFileList, exclusionTable, excludeCount,
                   fileLines, outputs, snpData, linesRead>>
    /\ UNCHANGED <<generators, converter, comparator>>

\* one pass of the while loop of __iter__, run by generator g, over the line
\* at the cursor self.lineNumber, which all generators of the reader share
FileIterate(g) ==
    /\ pc = "iter"
    /\ generators[g].state # "ended"
    /\ lineNumber <= Len(fileLines)
    /\ lineNumber' = lineNumber + 1
    /\ LET line == fileLines[lineNumber]
           step == ReaderStep(fileFormat, line, filterQuality)
       IN  IF step = "skip"
           THEN /\ generators' = [generators EXCEPT ![g].state = "running"]
                /\ UNCHANGED <<pc, errors, snpData>>
           ELSE IF step = "raise"
           THEN /\ Fail(UnrecognizedLine(line, lineNumber))
                /\ generators' = [generators EXCEPT ![g].state = "ended"]
                /\ UNCHANGED snpData
           ELSE /\ snpData' = Append(snpData,
                                     ReaderRecord(fileFormat, line, lineNumber,
                                                  multiChrom))
                /\ generators' =
                     [generators EXCEPT
                        ![g] = [state |-> "running",
                                lines |-> Append(@.lines, lineNumber)]]
                /\ UNCHANGED <<pc, errors>>
    /\ UNCHANGED <<config, inputFileList, exclusionTable, excludeCount, tables,
                   strainid, fileFormat, shortFilename, fileLines, outMark,
                   outputs, linesRead>>
    /\ UNCHANGED <<converter, comparator>>

\* faulty variant of FileExhausted: the reader is rewound to its first data
\* line when a generator ends
FileExhaustedRewind(g) ==
    /\ pc \in {"iter", "done"}
    /\ generators[g].state # "ended"
    /\ lineNumber > Len(fileLines)
    /\ pc' = "iter"
    /\ lineNumber' = NewReader(fileFormat, fileLines, shortFilename).lineNumber
    /\ generators' = [generators EXCEPT ![g].state = "ended"]
    /\ UNCHANGED <<config, inputFileList, exclusionTable, excludeCount, tables,
                   strainid, fileFormat, shortFilename, outMark, fileLines,
                   outputs, errors, snpData, linesRead>>
    /\ UNCHANGED <<converter, comparator>>

\* the while loop of generator g ends: lineNumber > len(_fileLines), also
\* for a generator made of a reader that is already exhausted
FileExhausted(g) ==
    /\ pc \in {"iter", "done"}
    /\ generators[g].state # "ended"
    /\ lineNumber > Len(fileLines)
    /\ pc' = "done"
    /\ generators' = [generators EXCEPT ![g].state = "ended"]
    /\ UNCHANGED <<config, inputFileList, exclusionTable, excludeCount, tables,
                   reader, fileLines, outputs, errors, snpData, linesRead>>
    /\ UNCHANGED <<converter, comparator>>

FileNext ==
    \/ FileOpen
    \/ \E g \in Generators : FileIterate(g)
    \/ \E g \in Generators : FileExhausted(g)

FileSpec == FileInit /\ [][FileNext]_vars

(***************************************************************************)
(* prephix2snpeffect.py: the rows of the SNP file are loaded into the      *)
(* table SNP_DATA, then the reference file is read and one line is written *)
(* per locus and sample base.  A row of the SNP file is                    *)
(* <<strainid, locus, base>> and a row of the reference file is            *)
(* <<locus, base>>, as the merge run writes them.                          *)
(***************************************************************************)
Bases == {"A", "C", "G", "T"}

\* The rows of the SNP files of the model: two strains with either of two
\* bases at locus 1, a row at locus 2, a placeholder row and a row with a
\* base of three characters.
SnpFileRows ==
    { <<s, IntLocus(1), <<b>> >> : s \in {"s1", "s2"}, b \in {"A", "G"} }
    \cup { <<"s1", IntLocus(2), <<"G">> >>,
           <<"s2", IntLocus(-1), <<"-">> >>,
           <<"s1", IntLocus(1), <<"G", ",", "T">> >> }

\* The rows of the reference files of the model; the last is the row of a
\* multi-chrom run.
RefFileRows ==
    { <<IntLocus(1), <<"A">> >>,
      <<IntLocus(2), <<"C">> >>,
      <<StrLocus("x", 1), <<"A">> >> }

\* A reference file has one row per locus.
RefFiles ==
    { q \in SeqsUpTo(RefFileRows, Cardinality(RefFileRows)) :
        \A i, j \in 1..Len(q) : (i # j) => q[i][1] # q[j][1] }

\* "^(?P<strainid>[^\t]+)\t-1"
SnpBadLocusMatch(row) == IsIntLocus(row[2]) /\ row[2][1] = -1
\* "^(?P<strainid>[^\t]+)\t(?P<locus>\d+)\t(?P<snpBase>[ACGT])$"
SnpLineMatch(row) ==
    /\ IsIntLocus(row[2])
    /\ row[2][1] >= 0
    /\ Len(row[3]) = 1
    /\ row[3][1] \in Bases
\* "^(?P<locus>\d+)\t(?P<refBase>[ACGT])$"
RefLineMatch(row) ==
    /\ IsIntLocus(row[1])
    /\ row[1][1] >= 0
    /\ Len(row[2]) = 1
    /\ row[2][1] \in Bases

\* PRIMARY KEY(strainid, locus)
HasKey(table, strain, locus) ==
    \E i \in 1..Len(table) : table[i][1] = strain /\ table[i][2] = locus
\* SELECT base FROM SNP_DATA WHERE STRAINID = ? AND LOCUS = ?
StoredBase(table, strain, locus) ==
    LET i == CHOOSE k \in 1..Len(table) :
                 table[k][1] = strain /\ table[k][2] = locus
    IN  table[i][3]

\* faulty variant of InsertOutcome: the key is not looked at
InsertOutcomeNoKey(table, row) == "inserted"

\* INSERT INTO SNP_DATA and the handler of sqlite3.IntegrityError
InsertOutcome(table, row) ==
    IF ~HasKey(table, row[1], row[2]) THEN "inserted"
    ELSE IF StoredBase(table, row[1], row[2]) = row[3] THEN "ignored"
    ELSE "raise"

\* an exception or sys.exit(1) inside "with dbconn:", which rolls the
\* inserted rows back
LoadFail(err) ==
    /\ convPc' = "failed"
    /\ convError' = err
    /\ SNP_DATA' = << >>

\* one pass of "for snpLine in snpFile"
LoadSnpLine ==
    /\ convPc = "load"
    /\ snpPos <= Len(snpFile)
    /\ snpPos' = snpPos + 1
    /\ LET row == snpFile[snpPos]
       IN  IF SnpBadLocusMatch(row)
           THEN UNCHANGED <<convPc, convError, SNP_DATA>>
           ELSE IF ~SnpLineMatch(row)
           THEN LoadFail("BadSnpLine")
           ELSE IF InsertOutcome(SNP_DATA, row) = "inserted"
           THEN /\ SNP_DATA' = Append(SNP_DATA, row)
                /\ UNCHANGED <<convPc, convError>>
           ELSE IF InsertOutcome(SNP_DATA, row) = "ignored"
           THEN UNCHANGED <<convPc, convError, SNP_DATA>>
           ELSE LoadFail("IntegrityError")
    /\ UNCHANGED <<snpFile, refFile, refPos, outFile, dupTracker>>
    /\ UNCHANGED <<merge, comparator>>

\* the end of the SNP file: the rows are committed
LoadDone ==
    /\ convPc = "load"
    /\ snpPos > Len(snpFile)
    /\ convPc' = "convert"
    /\ UNCHANGED <<snpFile, snpPos, SNP_DATA, refFile, refPos, outFile,
                   dupTracker, convError>>
    /\ UNCHANGED <<merge, comparator>>

\* str(n) of an int
IntText(n) == IF n < 0 THEN <<"-">> \o Digits(0 - n) ELSE Digits(n)

\* "{0}{1}".format(snpEffectLocus, snpBase)
DupKey(snpEffectLocus, snpBase) == IntText(snpEffectLocus) \o snpBase

\* SELECT base FROM SNP_DATA WHERE LOCUS = ?, in the order of insertion
SelectBases(table, locus) ==
    LET AtLocus(r) == r[2] = locus
        rows == SelectSeq(table, AtLocus)
    IN  [i \in 1..Len(rows) |-> rows[i][3]]

\* faulty variant of SnpEffectLine: the locus is written as it is
SnpEffectLineNoOffset(locus, snpBase, refBase) ==
    <<locus[1], snpBase, refBase>>

\* "{0}\tsample={1}\tref={2}" with the -1 offset of the SNP Effect format
SnpEffectLine(locus, snpBase, refBase) ==
    <<locus[1] - 1, snpBase, refBase>>

\* "for row in dbcursor.fetchall()": a line for every base that has no key
\* in dupTracker yet
RECURSIVE WriteLines(_, _, _, _, _)
WriteLines(bases, locus, refBase, out, tracker) ==
    IF bases = << >> THEN [out |-> out, tracker |-> tracker]
    ELSE LET dupKey == DupKey(locus[1] - 1, Head(bases))
         IN  IF dupKey \in tracker
             THEN WriteLines(Tail(bases), locus, refBase, out, tracker)
             ELSE WriteLines(Tail(bases), locus, refBase,
                             Append(out, SnpEffectLine(locus, Head(bases),
                                                       refBase)),
                             tracker \cup {dupKey})

\* one pass of "for refLine in refFile"
ReadRefLine ==
    /\ convPc = "convert"
    /\ refPos <= Len(refFile)
    /\ refPos' = refPos + 1
    /\ LET row == refFile[refPos]
           bases == SelectBases(SNP_DATA, row[1])
           written == WriteLines(bases, row[1], row[2], outFile, dupTracker)
       IN  IF ~RefLineMatch(row)
           THEN /\ convPc' = "failed"
                /\ convError' = "BadRefLine"
                /\ UNCHANGED <<outFile, dupTracker>>
           ELSE IF bases = << >>
           THEN /\ convPc' = "failed"
                /\ convError' = "NoSNPBase"
                /\ UNCHANGED <<outFile, dupTracker>>
           ELSE /\ outFile' = written.out
                /\ dupTracker' = written.tracker
                /\ UNCHANGED <<convPc, convError>>
    /\ UNCHANGED <<snpFile, snpPos, SNP_DATA, refFile>>
    /\ UNCHANGED <<merge, comparator>>

\* the end of the reference file
ConvertDone ==
    /\ convPc = "convert"
    /\ refPos > Len(refFile)
    /\ convPc' = "done"
    /\ UNCHANGED <<snpFile, snpPos, SNP_DATA, refFile, refPos, outFile,
                   dupTracker, convError>>
    /\ UNCHANGED <<merge, comparator>>

\* prephix2snpeffect.py ref_file snp_file
ConvInit ==
    /\ InitCommon
    /\ filterQuality = TRUE
    /\ multiChrom = FALSE
    /\ inputFileList = << >>
    /\ fileLines = << >>
    /\ snpFile \in SeqsUpTo(SnpFileRows, MaxSnpRows)
    /\ snpPos = 1
    /\ convPc = "load"
    /\ SNP_DATA = << >>
    /\ refFile \in RefFiles
    /\ refPos = 1
    /\ outFile = << >>
    /\ dupTracker = {}
    /\ convError = ""
    /\ ComparatorIdle

ConvNext == LoadSnpLine \/ LoadDone \/ ReadRefLine \/ ConvertDone

ConvSpec == ConvInit /\ [][ConvNext]_vars

(***************************************************************************)
(* snp_compare3.py: the rows of the compared and of the excluded strains   *)
(* are read into a set per strain, then the sets are combined.  A member   *)
(* of a set is <<locus, base>>.                                            *)
(***************************************************************************)
CmpStrains == {"s1", "s2", "s3"}

\* The rows of the SNP files of the model: three strains with the same base
\* at two loci, and a placeholder row.
CmpFileRows ==
    { <<s, IntLocus(l), <<"A">> >> : s \in CmpStrains, l \in {1, 2} }
    \cup { <<"s1", IntLocus(-1), <<"-">> >> }

\* "^(?P<strainID>.+?)\t(?P<locus>\d+)\t(?P<base>.)$"
CmpLineMatch(row) ==
    /\ IsIntLocus(row[2])
    /\ row[2][1] >= 0
    /\ Len(row[3]) = 1

\* "{0}\t{1}".format(matchLocus, matchBase)
LocusBase(row) == <<row[2], row[3]>>

\* set(currentStrainLociList)
SetOfList(list) == { list[i] : i \in 1..Len(list) }

\* snpCompareTable and snpExcludeTable after the strain read last is stored
StoreCompare(table) ==
    IF currentStrainID # "" /\ currentStrainID \in compareList
    THEN [s \in DOMAIN table \cup {currentStrainID} |->
            IF s = currentStrainID THEN SetOfList(currentStrainLociList)
            ELSE table[s]]
    ELSE table
StoreExclude(table) ==
    IF currentStrainID # "" /\ currentStrainID \notin compareList
    THEN [s \in DOMAIN table \cup {currentStrainID} |->
            IF s = currentStrainID THEN SetOfList(currentStrainLociList)
            ELSE table[s]]
    ELSE table

\* one pass of "for line in snpFile"
ReadCompareLine ==
    /\ cmpPc = "read"
    /\ snpPos <= Len(snpFile)
    /\ snpPos' = snpPos + 1
    /\ LET row == snpFile[snpPos]
       IN  IF ~CmpLineMatch(row)
           THEN /\ cmpPc' = "failed"
                /\ UNCHANGED <<currentStrainID, currentStrainLociList,
                               snpCompareTable, snpExcludeTable>>
           ELSE IF row[1] \notin compareList /\ row[1] \notin excludeList
           THEN UNCHANGED <<cmpPc, currentStrainID, currentStrainLociList,
                            snpCompareTable, snpExcludeTable>>
           ELSE IF currentStrainID # row[1]
           THEN /\ snpCompareTable' = StoreCompare(snpCompareTable)
                /\ snpExcludeTable' = StoreExclude(snpExcludeTable)
                /\ currentStrainID' = row[1]
                /\ currentStrainLociList' = <<LocusBase(row)>>
                /\ UNCHANGED cmpPc
           ELSE /\ currentStrainLociList' =
                     Append(currentStrainLociList, LocusBase(row))
                /\ UNCHANGED <<cmpPc, currentStrainID, snpCompareTable,
                               snpExcludeTable>>
    /\ UNCHANGED <<compareList, excludeList, commonSet, exclusionSet,
                   finalSet>>
    /\ UNCHANGED <<snpFile, convPc, SNP_DATA, refFile, refPos, outFile,
                   dupTracker, convError>>
    /\ UNCHANGED merge

\* Process last strain from loop.
ReadCompareDone ==
    /\ cmpPc = "read"
    /\ snpPos > Len(snpFile)
    /\ cmpPc' = "report"
    /\ snpCompareTable' = StoreCompare(snpCompareTable)
    /\ snpExcludeTable' = StoreExclude(snpExcludeTable)
    /\ UNCHANGED <<compareList, excludeList, currentStrainID,
                   currentStrainLociList, commonSet, exclusionSet, finalSet>>
    /\ UNCHANGED <<merge, converter>>

\* the orders in which "for strainSet in table.values()" can go through
\* the table
ValueOrders(table) ==
    { q \in SeqsUpTo(DOMAIN table, Cardinality(DOMAIN table)) :
        /\ Len(q) = Cardinality(DOMAIN table)
        /\ \A i, j \in 1..Len(q) : (i # j) => q[i] # q[j] }

\* if len(commonSet) == 0: commonSet = strainSet
\* else: commonSet = commonSet.intersection(strainSet)
RECURSIVE CombineSets(_, _, _)
CombineSets(set, order, table) ==
    IF order = << >> THEN set
    ELSE CombineSets(IF Cardinality(set) = 0 THEN table[Head(order)]
                     ELSE set \cap table[Head(order)],
                     Tail(order), table)

\* the common set, the exclusion set and their difference
GenerateReport ==
    /\ cmpPc = "report"
    /\ cmpPc' = "done"
    /\ \E order \in ValueOrders(snpCompareTable) :
         commonSet' = CombineSets({}, order, snpCompareTable)
    /\ \E order \in ValueOrders(snpExcludeTable) :
         exclusionSet' = CombineSets({}, order, snpExcludeTable)
    /\ finalSet' = commonSet' \ exclusionSet'
    /\ UNCHANGED <<compareList, excludeList, currentStrainID,
                   currentStrainLociList, snpCompareTable, snpExcludeTable>>
    /\ UNCHANGED <<merge, converter>>

\* snp_compare3.py --snpfile <snpfile> --compare ... --exclude ...
CmpInit ==
    /\ InitCommon
    /\ filterQuality = TRUE
    /\ multiChrom = FALSE
    /\ inputFileList = << >>
    /\ fileLines = << >>
    /\ snpFile \in SeqsUpTo(CmpFileRows, MaxSnpRows)
    /\ snpPos = 1
    /\ convPc = "idle"
    /\ SNP_DATA = << >>
    /\ refFile = << >>
    /\ refPos = 1
    /\ outFile = << >>
    /\ dupTracker = {}
    /\ convError = ""
    /\ cmpPc = "read"
    /\ compareList \in SUBSET CmpStrains
    /\ excludeList \in SUBSET CmpStrains
    /\ currentStrainID = ""
    /\ currentStrainLociList = << >>
    /\ snpCompareTable = << >>
    /\ snpExcludeTable = << >>
    /\ commonSet = {}
    /\ exclusionSet = {}
    /\ finalSet = {}

CmpNext == ReadCompareLine \/ ReadCompareDone \/ GenerateReport

CmpSpec == CmpInit /\ [][CmpNext]_vars

(***************************************************************************)
(* Properties of the merge run.                                            *)
(***************************************************************************)
\* the lines the reader yields as a qualifying record: not an indel and,
\* with an int locus, in no loaded exclusion range
YieldsAt(line) == ReaderStep(fileFormat, line, filterQuality) = "yield"
RecordOf(line) == ReaderRecord(fileFormat, line, lineNumber, multiChrom)
InSomeRange(locus) ==
    /\ IsIntLocus(locus)
    /\ \E l \in DOMAIN exclusionTable :
         exclusionTable[l][1] <= locus[1] /\ locus[1] <= exclusionTable[l][2]
Qualifies(line) ==
    /\ YieldsAt(line)
    /\ ~RecordOf(line).isIndel
    /\ ~InSomeRange(RecordOf(line).locus)

\* C1: the reference table holds one base per locus, and a qualifying record
\* whose locus is recorded with another reference base halts the run with
\* an error naming the locus, the record's file, line and base and the
\* recorded entry's base, file and line.
C1_RefMismatchHalts ==
    [][(pc = "iter" /\ linesRead' # linesRead) =>
       \A line \in BodyLines(fileFormat, multiChrom) :
         LET rec == RecordOf(line)
         IN  ( /\ Qualifies(line)
               /\ rec.locus \in DOMAIN refDataTable
               /\ refDataTable[rec.locus][1] # rec.refBase
               /\ ReadLine(line) )
             => /\ pc' = "failed"
                /\ refDataTable' = refDataTable
                /\ errors' = <<[kind |-> "RefMismatch",
                                locus |-> rec.locus,
                                file |-> shortFilename,
                                line |-> lineNumber,
                                ref |-> line.ref_base,
                                recorded |-> refDataTable[rec.locus][1],
                                recordedFile |-> refDataTable[rec.locus][2],
                                recordedLine |-> refDataTable[rec.locus][3]]>>
      ]_vars

\* C1 witness: a run halted by two files that disagree on a locus
C1_Witness ==
    /\ pc = "failed"
    /\ errors[1].kind = "RefMismatch"
    /\ errors[1].file # errors[1].recordedFile
    /\ errors[1].ref # errors[1].recorded

\* C2: a reference entry, once inserted, is never modified or removed; it is
\* inserted from the first qualifying record at its locus, and a later
\* qualifying record with the same reference base changes nothing in the
\* table and does not stop the run.
C2_RefEntryKept ==
    [][ /\ \A locus \in DOMAIN refDataTable :
             /\ locus \in DOMAIN refDataTable'
             /\ refDataTable'[locus] = refDataTable[locus]
        /\ (pc = "iter" /\ linesRead' # linesRead) =>
           \A line \in BodyLines(fileFormat, multiChrom) :
             LET rec == RecordOf(line)
             IN  (Qualifies(line) /\ ReadLine(line))
                 => IF rec.locus \notin DOMAIN refDataTable
                    THEN /\ DOMAIN refDataTable' =
                              DOMAIN refDataTable \cup {rec.locus}
                         /\ refDataTable'[rec.locus] =
                              <<line.ref_base, shortFilename, lineNumber>>
                    ELSE (refDataTable[rec.locus][1] = rec.refBase)
                         => /\ refDataTable' = refDataTable
                            /\ pc' = "iter"
                            /\ errors' = << >>
      ]_vars

\* C2 witness: a finished run in which two rows were written for one locus
C2_Witness ==
    /\ pc = "done"
    /\ \E i, j \in 1..Len(outfile) :
         /\ i < j
         /\ outfile[i][2] = outfile[j][2]
         /\ outfile[i][2] # IntLocus(-1)

\* C3: a reference mismatch ends the run in the failure state with no row
\* written to the reference file, and no step follows a fatal error: no
\* further record, no further file, no "Done".
C3_MismatchStopsRun ==
    [][ /\ errors = << >>
        /\ (errors' # << >> /\ errors'[1].kind = "RefMismatch")
           => (pc' = "failed" /\ reffile' = << >>)
      ]_vars

\* C3 witness: the run failed on a mismatch with an input file still waiting
C3_Witness ==
    /\ pc = "failed"
    /\ errors[1].kind = "RefMismatch"
    /\ inputFileList # << >>
    /\ reffile = << >>

\* ExclusionReport[strain][label], 0 where no count was ever made
ExclCount(data, strain, label) ==
    IF strain \in DOMAIN data /\ label \in DOMAIN data[strain]
    THEN data[strain][label] ELSE 0

RangesAt(locus) ==
    IF IsIntLocus(locus)
    THEN { l \in DOMAIN exclusionTable :
             exclusionTable[l][1] <= locus[1] /\ locus[1] <= exclusionTable[l][2] }
    ELSE {}

\* C4: a record whose locus lies in two or more exclusion ranges is counted
\* for exactly one label: the strain's exclusion counter and exactly one
\* label's counter go up by one, every other label's counter stays.
C4_OneLabelPerRecord ==
    [][(pc = "iter" /\ linesRead' # linesRead) =>
       \A line \in BodyLines(fileFormat, multiChrom) :
         LET rec == RecordOf(line)
             bumped == { l \in Labels :
                           ExclCount(excludeDataTable', strainid, l) =
                           ExclCount(excludeDataTable, strainid, l) + 1 }
             kept == { l \in Labels :
                         ExclCount(excludeDataTable', strainid, l) =
                         ExclCount(excludeDataTable, strainid, l) }
         IN  ( /\ YieldsAt(line)
               /\ Cardinality(RangesAt(rec.locus)) >= 2
               /\ ReadLine(line) )
             => /\ statsTable'[strainid][4] = statsTable[strainid][4] + 1
                /\ Cardinality(bumped) = 1
                /\ kept = Labels \ bumped
      ]_vars

\* C5: a non-indel record whose int locus L has start <= L <= end for a
\* loaded range writes no SNP row, counts no SNP, leaves the reference table
\* alone and counts one exclusion for the label; a record in no range is
\* not excluded and no exclusion counter changes.
C5_InclusiveExclusion ==
    [][(pc = "iter" /\ linesRead' # linesRead) =>
       \A line \in BodyLines(fileFormat, multiChrom) :
         LET rec == RecordOf(line)
         IN  ( /\ YieldsAt(line)
               /\ ~rec.isIndel
               /\ IsIntLocus(rec.locus)
               /\ ReadLine(line) )
             => /\ \A l \in DOMAIN exclusionTable :
                     ( /\ exclusionTable[l][1] <= rec.locus[1]
                       /\ rec.locus[1] <= exclusionTable[l][2] )
                     => /\ outfile' = outfile
                        /\ statsTable'[strainid][1] = statsTable[strainid][1]
                        /\ refDataTable' = refDataTable
                        /\ pc' = "iter"
                        /\ ExclCount(excludeDataTable', strainid, l) =
                             ExclCount(excludeDataTable, strainid, l) + 1
                /\ (RangesAt(rec.locus) = {})
                   => /\ excludeDataTable' = excludeDataTable
                      /\ statsTable'[strainid][4] = statsTable[strainid][4]
                      /\ outfile' = Append(outfile, <<strainid, rec.locus,
                                                     line.sample_base>>)
      ]_vars

\* C5 witness: a substitution at L = start = end was excluded
C5_Witness ==
    /\ outfile = << >>
    /\ indelfile = << >>
    /\ \E s \in DOMAIN excludeDataTable :
         \E l \in DOMAIN excludeDataTable[s] :
           exclusionTable[l] = <<2, 2>>

\* C6: an indel record appends one row (strain, format, raw line, INS or
\* DEL) to the indel log and adds one to exactly one of the strain's
\* insertion and deletion counters, in or out of an exclusion range; it
\* writes no SNP row, counts no SNP and leaves the reference table alone.
C6_IndelOnlyLogged ==
    [][(pc = "iter" /\ linesRead' # linesRead) =>
       \A line \in BodyLines(fileFormat, multiChrom) :
         LET rec == RecordOf(line)
             old == statsTable[strainid]
             new == statsTable'[strainid]
         IN  ( /\ YieldsAt(line)
               /\ rec.isIndel
               /\ ReadLine(line) )
             => /\ \/ /\ indelfile' = Append(indelfile,
                            <<strainid, fileFormat, line, "INS">>)
                      /\ new[2] = old[2] + 1 /\ new[3] = old[3]
                   \/ /\ indelfile' = Append(indelfile,
                            <<strainid, fileFormat, line, "DEL">>)
                      /\ new[2] = old[2] /\ new[3] = old[3] + 1
                /\ outfile' = outfile
                /\ new[1] = old[1]
                /\ refDataTable' = refDataTable
                /\ pc' = "iter"
      ]_vars

\* C6 witness: the only line read so far is a deletion inside an exclusion
\* range
C6_Witness ==
    /\ pc = "iter"
    /\ lineNumber = HeaderLines(fileFormat) + 2
    /\ outMark = 0
    /\ Len(indelfile) = 1
    /\ indelfile[1][4] = "DEL"
    /\ statsTable[strainid] = <<0, 0, 1, 1>>

\* C7: when a file's records are exhausted, one placeholder row
\* (strain, -1, -) is appended if the file wrote no SNP row, and no row is
\* appended if it wrote one.
C7_PlaceholderPerFile ==
    [][(pc = "iter" /\ pc' = "files")
       => IF Len(outfile) = outMark
          THEN outfile' = Append(outfile, <<strainid, IntLocus(-1), <<"-">> >>)
          ELSE outfile' = outfile
      ]_vars

\* C7 witness: a file that wrote a SNP row, then a file of the same strain
\* that had lines but wrote none and got the placeholder
C7_Witness ==
    /\ pc = "files"
    /\ Len(outfile) = 2
    /\ outfile[1][2] # IntLocus(-1)
    /\ outfile[2] = <<outfile[1][1], IntLocus(-1), <<"-">> >>
    /\ lineNumber > HeaderLines(fileFormat) + 1

\* C8: no two rows of the SNP output that are not placeholders share the
\* key (strain, locus).
C8_UniqueStrainLocus ==
    \A i, j \in 1..Len(outfile) :
        (i < j /\ outfile[i][2] # IntLocus(-1))
        => <<outfile[i][1], outfile[i][2]>> # <<outfile[j][1], outfile[j][2]>>

\* C9: after a run without a fatal error the reference output has one row
\* per locus of the reference table, with the recorded base, in strictly
\* ascending numeric order of the loci.
C9_ReferenceSorted ==
    (pc = "done")
    => /\ Len(reffile) = Cardinality(DOMAIN refDataTable)
       /\ { reffile[i][1] : i \in 1..Len(reffile) } = DOMAIN refDataTable
       /\ \A i \in 1..Len(reffile) :
            reffile[i][2] = refDataTable[reffile[i][1]][1]
       /\ \A i, j \in 1..Len(reffile) :
            (i < j /\ IsIntLocus(reffile[i][1]) /\ IsIntLocus(reffile[j][1]))
            => reffile[i][1][1] < reffile[j][1][1]

\* C9 witness: the lower locus was first seen in the second file, the
\* higher one in the first
C9_Witness ==
    /\ pc = "done"
    /\ Len(reffile) = 2
    /\ refDataTable[reffile[1][1]][2] = "f2"
    /\ refDataTable[reffile[2][1]][2] = "f1"

(***************************************************************************)
(* Properties of the readers.                                              *)
(***************************************************************************)
\* C10: a k28 record's locus is the locus column plus one; a nucmer record
\* and a VCF record outside multi-chrom mode carry the column unchanged.
C10_LocusOffset ==
    (snpData # << >>)
    => LET rec == snpData[1]
       IN  IF fileFormat = "k28"
           THEN rec.locus = <<rec.rawLine.col + 1>>
           ELSE IF fileFormat = "nucmer"
           THEN rec.locus = <<rec.rawLine.col>>
           ELSE ~multiChrom => rec.locus = <<rec.rawLine.col>>

\* C10 witness: a k28 line with column 2 was yielded at locus 3
C10_Witness ==
    /\ snpData # << >>
    /\ fileFormat = "k28"
    /\ snpData[1].rawLine.col = 2
    /\ snpData[1].locus = <<3>>

(***************************************************************************)
(* The quality filter and the indel tests.                                 *)
(***************************************************************************)
\* C11: with quality filtering on, a well-formed VCF line whose filter is
\* not PASS writes no SNP row and no indel row, makes no reference entry
\* and changes no counter; with filtering off the line is yielded as a
\* record: an indel is logged, a substitution is excluded or written.
C11_QualityFilter ==
    [][(pc = "iter" /\ linesRead' # linesRead) =>
       \A line \in BodyLines(fileFormat, multiChrom) :
         ( /\ line.kind = "vcf"
           /\ line.filter # "PASS"
           /\ ReadLine(line) )
         => IF filterQuality
            THEN /\ UNCHANGED <<outfile, indelfile, reffile>>
                 /\ UNCHANGED <<statsTable, excludeDataTable, refDataTable>>
                 /\ pc' = "iter"
            ELSE IF Len(line.sample_base) # Len(line.ref_base)
            THEN /\ Len(indelfile') = Len(indelfile) + 1
                 /\ indelfile'[Len(indelfile')][3] = line
            ELSE IF InSomeRange(RecordOf(line).locus)
            THEN statsTable'[strainid][4] > statsTable[strainid][4]
            ELSE outfile' = Append(outfile, <<strainid, RecordOf(line).locus,
                                             line.sample_base>>)
      ]_vars

\* C11 witness: with filtering on, a VCF file whose only line so far was
\* filtered out
C11_Witness ==
    /\ pc = "iter"
    /\ fileFormat = "vcf"
    /\ filterQuality
    /\ lineNumber = 4
    /\ outfile = << >>
    /\ indelfile = << >>
    /\ refDataTable = << >>
    /\ statsTable[strainid] = <<0, 0, 0, 0>>

\* the three flags of a record
IndelFlags(rec) == <<rec.isIndel, rec.isInsert, rec.isDelete>>

\* C12: a k28 or nucmer record with sample base s and reference base r is a
\* deletion if |s| = 0, an insertion if |s| > 1, an insertion if |s| = 1
\* and |r| = 0, a deletion if |s| = 1 and |r| > 1, and no indel if both
\* have length 1; the length of r matters only when |s| = 1.
C12_IndelKind ==
    (snpData # << >> /\ fileFormat \in {"k28", "nucmer"})
    => LET rec == snpData[Len(snpData)]
           s == Len(rec.rawLine.sample_base)
           r == Len(rec.rawLine.ref_base)
       IN  /\ (s = 0) => IndelFlags(rec) = <<TRUE, FALSE, TRUE>>
           /\ (s > 1) => IndelFlags(rec) = <<TRUE, TRUE, FALSE>>
           /\ (s = 1 /\ r = 0) => IndelFlags(rec) = <<TRUE, TRUE, FALSE>>
           /\ (s = 1 /\ r > 1) => IndelFlags(rec) = <<TRUE, FALSE, TRUE>>
           /\ (s = 1 /\ r = 1) => IndelFlags(rec) = <<FALSE, FALSE, FALSE>>

\* C12 witness: a k28 record with neither a sample nor a reference base was
\* yielded as a deletion
C12_Witness ==
    /\ snpData # << >>
    /\ fileFormat = "k28"
    /\ snpData[1].rawLine.sample_base = NoBase
    /\ snpData[1].rawLine.ref_base = NoBase
    /\ snpData[1].isDelete

\* C13: a yielded VCF record with sample alleles s and reference alleles r,
\* taken as raw strings, is logged as a deletion if |s| < |r| and as an
\* insertion if |s| > |r|; if |s| = |r| it is no indel, whatever the length
\* and content, and unless excluded its SNP row carries the whole of s.
C13_VCFIndelByLength ==
    [][(pc = "iter" /\ fileFormat = "vcf" /\ linesRead' # linesRead) =>
       \A line \in BodyLines(fileFormat, multiChrom) :
         LET s == Len(line.sample_base)
             r == Len(line.ref_base)
             locus == IF multiChrom THEN <<line.chrom, line.col>>
                      ELSE <<line.col>>
         IN  (line.kind = "vcf" /\ YieldsAt(line) /\ ReadLine(line))
             => IF s < r
                THEN /\ indelfile' = Append(indelfile,
                                            <<strainid, "vcf", line, "DEL">>)
                     /\ outfile' = outfile
                ELSE IF s > r
                THEN /\ indelfile' = Append(indelfile,
                                            <<strainid, "vcf", line, "INS">>)
                     /\ outfile' = outfile
                ELSE /\ indelfile' = indelfile
                     /\ ~InSomeRange(locus)
                        => outfile' = Append(outfile, <<strainid, locus,
                                                       line.sample_base>>)
      ]_vars

\* C13 witness: a SNP row whose base is the three characters "G,T"
C13_Witness ==
    \E i \in 1..Len(outfile) : outfile[i][3] = <<"G", ",", "T">>

(***************************************************************************)
(* Properties of getSNPFileReader and of the readers' constructors.        *)
(***************************************************************************)
\* the lines of a file that match one of the three marker patterns
MarkersOf(lines) ==
    { i \in 1..Len(lines) :
        \/ K28ReMatch(lines[i])
        \/ NucmerReMatch(lines[i])
        \/ VcfReMatch(lines[i]) }
MarkerLines == MarkersOf(fileLines)

\* C14: the format of a file is that of its earliest line matching a marker
\* pattern, k28 before nucmer before VCF when the line matches several,
\* whatever the later lines are; the reader is of that format and reads the
\* file from its first line again, so a nucmer reader finds the strain on a
\* line before the marker.
C14_EarliestMarkerWins ==
    (pc # "exclude" /\ MarkerLines # {})
    => LET first == CHOOSE i \in MarkerLines : \A j \in MarkerLines : i <= j
           paths == { i \in 1..Len(fileLines) : fileLines[i].kind = "paths" }
       IN  /\ fileFormat =
                IF K28ReMatch(fileLines[first]) THEN "k28"
                ELSE IF NucmerReMatch(fileLines[first]) THEN "nucmer"
                ELSE "vcf"
           /\ (fileFormat = "nucmer" /\ paths # {}) => strainid = "s1"
           /\ (fileFormat = "vcf") => strainid = shortFilename

\* C14 witness: a k28 reader for a file whose first line matches the k28 and
\* the VCF marker patterns and whose second line is the nucmer marker
C14_Witness ==
    /\ pc = "iter"
    /\ Len(fileLines) >= 2
    /\ fileLines[1] = VCFSlashMarker
    /\ fileLines[2] = NucmerMarker
    /\ fileFormat = "k28"

C16_AnyUnmatchedLineRaises ==
    [][(pc = "iter" /\ linesRead' # linesRead) =>
       \A line \in BodyLines(fileFormat, multiChrom) :
         (line.kind # fileFormat /\ ReadLine(line))
         => /\ pc' = "failed"
            /\ errors' = <<[kind |-> "UnrecognizedLine",
                            line |-> lineNumber, text |-> line]>>
      ]_vars

\* C16 amended: a body line that does not match the pattern of the file's
\* format, a blank line included, raises the unrecognized-line error with
\* the line's position in the file and its text, except that the k28 reader
\* skips a line that begins with #; no record of this or a later line is
\* merged, and what earlier lines merged stays as it is.
C16_UnrecognizedLineAborts ==
    [][ /\ pc # "failed"
        /\ (pc = "iter" /\ linesRead' # linesRead) =>
           \A line \in BodyLines(fileFormat, multiChrom) :
             ( /\ line.kind # fileFormat
               /\ ~(fileFormat = "k28" /\ line.kind = "comment")
               /\ ReadLine(line) )
             => /\ pc' = "failed"
                /\ errors' = <<[kind |-> "UnrecognizedLine",
                                line |-> lineNumber, text |-> line]>>
                /\ UNCHANGED <<statsTable, excludeDataTable, refDataTable>>
                /\ UNCHANGED <<outfile, indelfile, reffile>>
      ]_vars

\* C16 witness: the second body line of a file was not recognized after the
\* first one had written a SNP row
C16_Witness ==
    /\ pc = "failed"
    /\ errors[1].kind = "UnrecognizedLine"
    /\ errors[1].line = HeaderLines(fileFormat) + 2
    /\ errors[1].text = BlankLine
    /\ Len(outfile) = 1
    /\ DOMAIN refDataTable # {}

\* a file that has the header of its format and no data line after it: a
\* k28 file of # and > lines only, a nucmer file that ends with its "[P1]"
\* line, a VCF file that ends with its "#CHROM" line
HeaderOnly ==
    LET n == Len(fileLines)
        p1s == { i \in 1..n : fileLines[i].kind = "p1" }
        chroms == { i \in 1..n : fileLines[i].kind = "chrom" }
    IN  \/ /\ fileFormat = "k28"
           /\ \A i \in 1..n :
                fileLines[i].kind \in {"k28strain", "vcfslash", "vcfformat",
                                       "chrom", "comment", "gt"}
        \/ fileFormat = "nucmer" /\ p1s = {n}
        \/ fileFormat = "vcf" /\ chroms = {n}

\* C17: a reader built on a file that has its header and no data line is
\* built without error, leaves nothing to iterate, yields no record and
\* raises nothing.
C17_HeaderOnlyFile ==
    (pc # "exclude" /\ HeaderOnly)
    => /\ pc \in {"iter", "done"}
       /\ errors = << >>
       /\ snpData = << >>
       /\ lineNumber = Len(fileLines) + 1

\* C17 witness: the reader of a VCF file of the marker line and the "#CHROM"
\* line was iterated to its end
C17_Witness ==
    /\ pc = "done"
    /\ fileFormat = "vcf"
    /\ fileLines = <<VCFMarker, ChromLine>>
    /\ snpData = << >>
    /\ errors = << >>

(***************************************************************************)
(* Properties of the exclusion file and of the statistics.                 *)
(***************************************************************************)
\* C18: loading the exclusion file stops the run at the first line whose
\* label was loaded before and at the first line not of the form
\* label,start,end, before any input file is processed; a load that
\* succeeds leaves one range for each label of the file.
C18_ExclusionLoad ==
    [][(pc = "exclude") =>
        /\ \A l \in Labels, r \in ExclusionRanges :
             ReadExclusion(l, r)
             => IF l \in DOMAIN exclusionTable
                THEN /\ pc' = "failed"
                     /\ errors' = <<[kind |-> "DuplicateLabel", label |-> l,
                                     line |-> excludeCount + 1]>>
                     /\ exclusionTable' = exclusionTable
                ELSE /\ pc' = "exclude"
                     /\ DOMAIN exclusionTable' = DOMAIN exclusionTable \cup {l}
                     /\ exclusionTable'[l] = r
                     /\ \A k \in DOMAIN exclusionTable :
                          exclusionTable'[k] = exclusionTable[k]
        /\ BadExclusionLine
           => /\ pc' = "failed"
              /\ errors' = <<[kind |-> "BadExclusionLine",
                              line |-> excludeCount + 1]>>
        /\ (pc' = "failed")
           => /\ inputFileList' = inputFileList
              /\ statsTable' = << >>
              /\ UNCHANGED <<outfile, indelfile, reffile>>
        /\ (pc' = "files")
           => Cardinality(DOMAIN exclusionTable) = excludeCount
      ]_vars

\* C18 witness: the second line of the exclusion file repeated the label of
\* the first, with an input file waiting
C18_Witness ==
    /\ pc = "failed"
    /\ errors[1].kind = "DuplicateLabel"
    /\ errors[1].line = 2
    /\ errors[1].label \in DOMAIN exclusionTable
    /\ inputFileList # << >>
    /\ statsTable = << >>

\* C19: the statistics entry of a strain is created once and never reset:
\* each of its four counters never decreases, also when a later file has
\* the strain of an earlier one.
C19_CountersNeverReset ==
    [][\A s \in DOMAIN statsTable :
         /\ s \in DOMAIN statsTable'
         /\ \A i \in 1..4 : statsTable'[s][i] >= statsTable[s][i]
      ]_vars

\* C20: in the final SNP output a strain has a placeholder row only if no
\* other row of the output carries that strain.
C20_PlaceholderOnlyIfNoRow ==
    (pc = "done")
    => \A i, j \in 1..Len(outfile) :
         (outfile[i][2] = IntLocus(-1) /\ outfile[j][1] = outfile[i][1])
         => outfile[j][2] = IntLocus(-1)

(***************************************************************************)
(* Further properties of the readers.                                      *)
(***************************************************************************)
\* C21: a VCF body line of exactly seven tab-delimited fields, with nothing
\* after the filter field, is accepted by the VCF reader: it is never
\* reported as an unrecognized line.
C21_SevenFieldsAccepted ==
    ~( /\ pc = "failed"
       /\ fileFormat = "vcf"
       /\ errors[1].kind = "UnrecognizedLine"
       /\ errors[1].text.kind = "vcf7" )

\* C22: the strain of a k28 file is that of the first "#<strain>/" comment
\* before the first data line, and is unset if there is none; every line
\* from the first data line on that is no comment yields one record, in
\* file order.
C22_StrainFromHeaderOnly ==
    (fileFormat = "k28" /\ pc \in {"iter", "done"})
    => LET n == Len(fileLines)
           firstData == FirstIndex({ i \in 1..n : K28LineMatch(fileLines[i]) })
           header == IF firstData = 0 THEN 1..n ELSE 1..(firstData - 1)
           strainAt == FirstIndex({ i \in header :
                                      K28StrainMatch(fileLines[i]) })
           body == IF firstData = 0 THEN {}
                   ELSE { i \in firstData..n : ~StartsWithHash(fileLines[i]) }
       IN  /\ strainid = IF strainAt = 0 THEN "None"
                         ELSE fileLines[strainAt].strain
           /\ (pc = "done")
              => /\ { snpData[i].lineNumber : i \in 1..Len(snpData) } = body
                 /\ Len(snpData) = Cardinality(body)
                 /\ \A i, j \in 1..Len(snpData) :
                      (i < j) => snpData[i].lineNumber < snpData[j].lineNumber

\* the line numbers of the records yielded so far increase strictly, no two
\* generators of the reader have yielded the same line, and the cursor is
\* at most one past the last line
SinglePass ==
    /\ \A i, j \in 1..Len(snpData) :
         (i < j) => snpData[i].lineNumber < snpData[j].lineNumber
    /\ \A g, h \in Generators :
         (g # h)
         => { generators[g].lines[i] : i \in 1..Len(generators[g].lines) }
            \cap { generators[h].lines[i] : i \in 1..Len(generators[h].lines) }
            = {}
    /\ (pc # "exclude") => lineNumber <= Len(fileLines) + 1

\* C23: a reader is a finite, forward-only, single-pass sequence: every pass
\* of the loop moves the cursor forward by exactly one and the cursor never
\* goes back, so that iteration ends after at most as many passes as the
\* file has lines; a yielded record carries the line number the cursor had;
\* line numbers increase strictly; an exhausted reader yields nothing more,
\* and two generators of one reader never yield the same line.
C23_SinglePass ==
    [][(pc # "exclude")
       => /\ lineNumber' >= lineNumber
          /\ (\E g \in Generators : FileIterate(g))
             => lineNumber' = lineNumber + 1
          /\ (snpData' # snpData)
             => /\ lineNumber <= Len(fileLines)
                /\ Len(snpData') = Len(snpData) + 1
                /\ SubSeq(snpData', 1, Len(snpData)) = snpData
                /\ snpData'[Len(snpData')].lineNumber = lineNumber
          /\ (lineNumber > Len(fileLines))
             => (snpData' = snpData /\ lineNumber' = lineNumber)
          /\ SinglePass'
      ]_vars

\* C23 witness: the two generators of one reader were run in turn, one
\* yielded line 2 and the other line 3, and both ended on the exhausted
\* reader
C23_Witness ==
    /\ pc = "done"
    /\ Len(snpData) = 2
    /\ generators[1] = [state |-> "ended", lines |-> <<2>>]
    /\ generators[2] = [state |-> "ended", lines |-> <<3>>]

(***************************************************************************)
(* Further properties of the merge run.                                    *)
(***************************************************************************)
\* C24: in multi-chrom mode no VCF record is excluded and no exclusion
\* counter changes, whatever ranges are loaded and whatever the position
\* of the record: a substitution is written with its "chrom-pos" locus as
\* if there were no exclusion file.
C24_MultiChromNeverExcluded ==
    [][(pc = "iter" /\ multiChrom /\ fileFormat = "vcf"
        /\ linesRead' # linesRead) =>
       \A line \in BodyLines(fileFormat, multiChrom) :
         (YieldsAt(line) /\ ReadLine(line))
         => /\ excludeDataTable' = excludeDataTable
            /\ statsTable'[strainid][4] = statsTable[strainid][4]
            /\ (Len(line.sample_base) = Len(line.ref_base))
               => outfile' = Append(outfile, <<strainid,
                                              <<line.chrom, line.col>>,
                                              line.sample_base>>)
      ]_vars

\* C24 witness: a row was written for position 2 of a chromosome while a
\* range from 2 to 2 was loaded
C24_Witness ==
    /\ multiChrom
    /\ \E l \in DOMAIN exclusionTable : exclusionTable[l] = <<2, 2>>
    /\ \E i \in 1..Len(outfile) :
         Len(outfile[i][2]) = 2 /\ outfile[i][2][2] = 2
    /\ excludeDataTable = << >>

\* C28: after every record the loci of the reference table are the loci of
\* the rows of the SNP output that are not placeholders: every such row has
\* a reference entry and every reference entry has such a row.
C28_RefLociAreSnpLoci ==
    DOMAIN refDataTable =
      { outfile[i][2] : i \in { k \in 1..Len(outfile) :
                                  outfile[k][2] # IntLocus(-1) } }

\* C28 witness: one record was excluded and another gave the one SNP row
\* and the one reference entry
C28_Witness ==
    /\ excludeDataTable # << >>
    /\ Cardinality(DOMAIN refDataTable) = 1
    /\ \E i \in 1..Len(outfile) : outfile[i][2] # IntLocus(-1)

\* C29: for every record a reader yields, isIndel holds if and only if
\* exactly one of isInsert and isDelete does, and the two never hold
\* together; the merge run never ends with the "Unknown indel type" error.
C29_IndelFlagsConsistent ==
    /\ ~(errors # << >> /\ errors[1].kind = "UnknownIndel")
    /\ (pc = "iter")
       => \A line \in ReaderLines(fileFormat) :
            YieldsAt(line)
            => LET rec == RecordOf(line)
               IN  /\ rec.isIndel <=> (rec.isInsert # rec.isDelete)
                   /\ ~(rec.isInsert /\ rec.isDelete)
                   /\ rec.isIndel => IndelType(rec) \in {"INS", "DEL"}

\* C29 witness: a nucmer file gave an insertion and a deletion to the indel
\* log
C29_Witness ==
    /\ fileFormat = "nucmer"
    /\ Len(indelfile) = 2
    /\ indelfile[1][4] # indelfile[2][4]
    /\ errors = << >>

RECURSIVE SumCounts(_, _, _)
SumCounts(data, strain, labels) ==
    IF labels = {} THEN 0
    ELSE LET l == CHOOSE x \in labels : TRUE
         IN  ExclCount(data, strain, l)
             + SumCounts(data, strain, labels \ {l})

\* the counters of every strain agree with the rows written for it
CountersMatch ==
    \A s \in DOMAIN statsTable :
      /\ statsTable[s][1] =
           Cardinality({ i \in 1..Len(outfile) :
                           outfile[i][1] = s /\ outfile[i][2] # IntLocus(-1) })
      /\ statsTable[s][2] + statsTable[s][3] =
           Cardinality({ i \in 1..Len(indelfile) : indelfile[i][1] = s })
      /\ statsTable[s][4] = SumCounts(excludeDataTable, s, Labels)

\* C30: as long as no file has the strain of an earlier file, after every
\* record the SNP counter of a strain is the number of its SNP rows that
\* are not placeholders, its insertion and deletion counters add up to the
\* number of its indel rows, and its exclusion counter is the sum of its
\* counts over all labels.  The counters match at the start, when there is
\* no strain, and every step other than the opening of a file whose strain
\* was seen before keeps them matching.
C30_CountersMatchRows ==
    [][(CountersMatch
        /\ ~(pc = "files" /\ pc' = "iter" /\ strainid' \in DOMAIN statsTable))
       => CountersMatch'
      ]_vars

\* C30 witness: two strains, one with a record counted for two labels and
\* one with a SNP row
C30_Witness ==
    /\ CountersMatch
    /\ Cardinality(DOMAIN statsTable) = 2
    /\ \E s \in DOMAIN statsTable : statsTable[s][4] = 2
    /\ \E s \in DOMAIN statsTable : statsTable[s][1] = 1

(***************************************************************************)
(* Properties of prephix2snpeffect.py.                                     *)
(***************************************************************************)
\* C25: while the SNP file is loaded, a row whose (strain, locus) is stored
\* with the same base is ignored without error and the table stays as it
\* is; with another base the conversion is aborted with an error; a row
\* with locus -1 is skipped and never stored; the table never holds two
\* rows for one (strain, locus).
C25_DuplicateRows ==
    [][(convPc = "load" /\ snpPos' # snpPos) =>
       LET row == snpFile[snpPos]
           stored == { i \in 1..Len(SNP_DATA) :
                         /\ SNP_DATA[i][1] = row[1]
                         /\ SNP_DATA[i][2] = row[2] }
       IN  /\ (row[2] = IntLocus(-1))
              => (SNP_DATA' = SNP_DATA /\ convPc' = "load")
           /\ (row[2] # IntLocus(-1) /\ stored # {})
              => IF \E i \in stored : SNP_DATA[i][3] = row[3]
                 THEN /\ SNP_DATA' = SNP_DATA
                      /\ convPc' = "load"
                      /\ convError' = ""
                 ELSE /\ convPc' = "failed"
                      /\ convError' # ""
           /\ \A i, j \in 1..Len(SNP_DATA') :
                /\ SNP_DATA'[i][2] # IntLocus(-1)
                /\ ( /\ SNP_DATA'[i][1] = SNP_DATA'[j][1]
                     /\ SNP_DATA'[i][2] = SNP_DATA'[j][2] ) => i = j
      ]_vars

\* C25 witness: a file of a row, a placeholder row and the first row again
\* was loaded to its end, and the table holds the one row
C25_Witness ==
    /\ convPc = "convert"
    /\ Len(snpFile) = 3
    /\ snpFile[1] = snpFile[3]
    /\ snpFile[2][2] = IntLocus(-1)
    /\ SNP_DATA = <<snpFile[1]>>

\* C26: for a reference row (L, r) and a base b stored for L the converter
\* writes the line (L - 1, sample=b, ref=r) exactly once, however many
\* strains have b at L; it writes no other line; a reference row whose
\* locus has no stored row aborts the conversion.
C26_OneLinePerLocusBase ==
    /\ \A k \in 1..Len(outFile) :
         \E j \in 1..(refPos - 1), i \in 1..Len(SNP_DATA) :
           /\ IsIntLocus(refFile[j][1])
           /\ SNP_DATA[i][2] = refFile[j][1]
           /\ outFile[k] = <<refFile[j][1][1] - 1, SNP_DATA[i][3],
                             refFile[j][2]>>
    /\ (convPc = "done")
       => \A j \in 1..Len(refFile), i \in 1..Len(SNP_DATA) :
            (SNP_DATA[i][2] = refFile[j][1])
            => Cardinality({ k \in 1..Len(outFile) :
                               outFile[k] = <<refFile[j][1][1] - 1,
                                              SNP_DATA[i][3],
                                              refFile[j][2]>> }) = 1
    /\ \A j \in 1..(refPos - 1) :
         (\A i \in 1..Len(SNP_DATA) : SNP_DATA[i][2] # refFile[j][1])
         => (convPc = "failed" /\ convError # "" /\ j = refPos - 1)

\* C26 witness: three rows stored for the two loci of the reference file
\* gave two lines
C26_Witness ==
    /\ convPc = "done"
    /\ Len(refFile) = 2
    /\ Len(SNP_DATA) = 3
    /\ Len(outFile) = 2

(***************************************************************************)
(* Properties of snp_compare3.py.                                          *)
(***************************************************************************)
\* the members common to all sets of a family, none for the empty family
CommonOf(family) ==
    { x \in UNION family : \A set \in family : x \in set }

\* the <<locus, base>> of the rows of a strain in the SNP file
RowsOf(strain) ==
    { LocusBase(snpFile[i]) :
        i \in { k \in 1..Len(snpFile) : snpFile[k][1] = strain } }

\* the rows of a strain follow one another in the SNP file
Grouped ==
    \A i, j, k \in 1..Len(snpFile) :
        (i < j /\ j < k /\ snpFile[i][1] = snpFile[k][1])
        => snpFile[j][1] = snpFile[i][1]

\* C27: the common set is the intersection of the sets of the compared
\* strains found in the SNP file, the exclusion set the intersection of the
\* sets of the excluded strains found, and the final set their difference,
\* in whatever order the sets are combined and also when an intermediate
\* intersection is empty.  Stated for a file in which the rows of a strain
\* follow one another and for lists with no strain in common.
C27_Intersections ==
    (cmpPc = "done" /\ Grouped /\ compareList \cap excludeList = {})
    => LET compared == { RowsOf(s) : s \in { t \in compareList :
                                                RowsOf(t) # {} } }
           excluded == { RowsOf(s) : s \in { t \in excludeList :
                                                RowsOf(t) # {} } }
       IN  /\ commonSet = CommonOf(compared)
           /\ exclusionSet = CommonOf(excluded)
           /\ finalSet = CommonOf(compared) \ CommonOf(excluded)

====
